---- MODULE Spec2Model ----
(***************************************************************************)
(* Record store, retrieval tools, conversation service and POST /chat      *)
(* handler of the conversational agent (tools.py, conversation_service.py, *)
(* web_api.py, app.py, models.py).                                         *)
(*                                                                         *)
(* A Python string is a sequence of characters; a multi-letter token such  *)
(* as "A1" stands for one non-space character.  Python None and SQL NULL   *)
(* are the distinguished value None.                                       *)
(***************************************************************************)
EXTENDS Integers, Sequences, FiniteSets, TLC

VARIABLES accounts, facilities, notes, nextNoteId, clock, convos, jsonColumn,
          call, written, req

vars == <<accounts, facilities, notes, nextNoteId, clock, convos, jsonColumn,
          call, written, req>>

---------------------------------------------------------------------------
(* Bounds *)

MaxNotes == 2
MaxConvos == 2
MaxHistoryLen == 2
NumRequests == 2

---------------------------------------------------------------------------
(* Python strings *)

None == <<"None">>

\* `if s:` -- None and '' are falsy
Truthy(s) == s # None /\ s # <<>>

RECURSIVE LStrip(_)
LStrip(s) == IF s # <<>> /\ Head(s) = " " THEN LStrip(Tail(s)) ELSE s

RECURSIVE RStrip(_)
RStrip(s) ==
    IF s # <<>> /\ s[Len(s)] = " " THEN RStrip(SubSeq(s, 1, Len(s) - 1)) ELSE s

\* str.strip()
Strip(s) == RStrip(LStrip(s))

\* `not s or not s.strip()`
Blank(s) == ~Truthy(s) \/ ~Truthy(Strip(s))

---------------------------------------------------------------------------
(* Column values: <<type, n>>; n = 0 is the falsy value of the type         *)
(* ('' / 0 / False), timestamps are never falsy.                            *)

Null == <<"null", 0>>

\* `if v` on a column value
ValTruthy(v) == v # Null /\ (v[1] = "ts" \/ v[2] # 0)

\* str(datetime)
StrOf(v) == <<"str(ts)", v[2]>>

\* float(Decimal)
FloatOf(v) == <<"float", v[2]>>

\* `str(v) if v else None`
StrOrNone(v) == IF ValTruthy(v) THEN StrOf(v) ELSE Null

\* `float(v) if v else None`
FloatIfTruthy(v) == IF ValTruthy(v) THEN FloatOf(v) ELSE Null

\* `float(v) if v is not None else None`
FloatOrNone(v) == IF v # Null THEN FloatOf(v) ELSE Null

---------------------------------------------------------------------------
(* Record store: accounts and facilities                                    *)

AccountIds == {<<"A1">>, <<"A2">>}
FacilityIds == {<<"F1">>, <<"F2">>, <<"F3">>}

\* columns of CREATE TABLE accounts other than the key, with their type
AccountColumnType ==
    [ account_name |-> "str", status |-> "str", is_tna |-> "bool",
      created_at |-> "ts", updated_at |-> "ts", pricing_model |-> "str",
      address_line1 |-> "str", address_line2 |-> "str",
      address_city |-> "str", address_state |-> "str",
      address_postal_code |-> "str", address_country |-> "str",
      total_amount_due |-> "dec", total_amount_due_this_week |-> "dec",
      invoice_id |-> "str", invoice_amount |-> "dec",
      invoice_due_date |-> "str", current_balance |-> "dec",
      points_earned_this_quarter |-> "int", pending_balance |-> "dec",
      current_tier |-> "str", next_tier |-> "str",
      points_to_next_tier |-> "int", quarter_end_date |-> "ts",
      free_vials_available |-> "int",
      rewards_required_for_next_free_vial |-> "int",
      rewards_redeemed_towards_next_free_vial |-> "int",
      rewards_status |-> "str", rewards_updated_at |-> "ts",
      evolux_level |-> "str", description |-> "str" ]

AccountColumns == DOMAIN AccountColumnType

\* NOT NULL columns, and updated_at whose default is CURRENT_TIMESTAMP
AccountNotNull == {"account_name", "status", "updated_at"}

\* columns of CREATE TABLE facilities other than facility_id and account_id
FacilityColumnType ==
    [ facility_name |-> "str", status |-> "str",
      has_signed_medical_liability_agreement |-> "bool",
      medical_license_id |-> "str", medical_license_state |-> "str",
      medical_license_number |-> "str",
      medical_license_involvement |-> "str",
      medical_license_expiration_date |-> "ts",
      medical_license_is_expired |-> "bool",
      medical_license_status |-> "str",
      medical_license_owner_first_name |-> "str",
      medical_license_owner_last_name |-> "str",
      account_has_signed_financial_agreement |-> "bool",
      account_has_accepted_jet_terms |-> "bool",
      shipping_address_line1 |-> "str", shipping_address_line2 |-> "str",
      shipping_address_city |-> "str", shipping_address_state |-> "str",
      shipping_address_zip |-> "str",
      shipping_address_commercial |-> "bool", sponsored |-> "bool",
      agreement_status |-> "str", agreement_signed_at |-> "ts",
      agreement_type |-> "str", created_at |-> "ts", updated_at |-> "ts",
      description |-> "str" ]

FacilityColumns == DOMAIN FacilityColumnType

FacilityNotNull == {"facility_name", "status", "created_at", "updated_at"}

\* sample rows: every column set, every nullable column NULL, every column
\* set to the falsy value of its type
RowProfiles == {"full", "sparse", "falsy"}

SampleValue(type, notNull, profile, k) ==
    CASE profile = "full" -> <<type, k>>
      [] profile = "sparse" -> IF notNull THEN <<type, k>> ELSE Null
      [] OTHER -> IF type = "ts" \/ notNull THEN <<type, k>> ELSE <<type, 0>>

AccountRow(profile, k) ==
    [c \in AccountColumns |->
        SampleValue(AccountColumnType[c], c \in AccountNotNull, profile, k)]

FacilityRow(profile, k) ==
    [c \in FacilityColumns |->
        SampleValue(FacilityColumnType[c], c \in FacilityNotNull, profile, k)]

\* facilities.account_id REFERENCES accounts(account_id)
FacilityTables ==
    { [f \in FacilityIds |->
         [account_id |-> owner[f],
          cols |-> FacilityRow(IF f = <<"F1">> THEN "full"
                               ELSE IF f = <<"F2">> THEN "sparse"
                               ELSE "falsy",
                               IF f = <<"F1">> THEN 1
                               ELSE IF f = <<"F2">> THEN 2 ELSE 3)]]
      : owner \in [FacilityIds -> AccountIds] }

AccountTables ==
    { [a \in AccountIds |->
         AccountRow(profile[a], IF a = <<"A1">> THEN 1 ELSE 2)]
      : profile \in [AccountIds -> RowProfiles] }

---------------------------------------------------------------------------
(* Tool results (models.py)                                                 *)

\* an f-string message: the template, the ids and the numbers formatted
\* into it, and the rows listed in it
Message(template, args, nums, listing) ==
    [template |-> template, args |-> args, nums |-> nums,
     listing |-> listing]

NoList == [isNone |-> TRUE, items |-> {}]

ListOf(items) == [isNone |-> FALSE, items |-> items]

AccountResponseFields ==
    {"name", "status", "is_tna", "created_at", "pricing_model",
     "address_line1", "address_line2", "address_city", "address_state",
     "address_postal_code", "address_country", "total_amount_due",
     "total_amount_due_this_week", "invoice_id", "invoice_amount",
     "invoice_due_date", "current_balance", "pending_balance",
     "points_earned_this_quarter", "current_tier", "next_tier",
     "points_to_next_tier", "quarter_end_date", "free_vials_available",
     "rewards_required_for_next_free_vial",
     "rewards_redeemed_towards_next_free_vial", "rewards_status",
     "rewards_updated_at", "evolux_level"}

\* AccountResponse(success=..., message=...): every other field defaults
\* to None
AccountResponse(success, message) ==
    [success |-> success, message |-> message, account_id |-> None,
     facilities |-> NoList,
     fields |-> [f \in AccountResponseFields |-> Null]]

FacilityResponseFields ==
    {"name", "status", "has_signed_medical_liability_agreement",
     "medical_license_id", "medical_license_state",
     "medical_license_number", "medical_license_involvement",
     "medical_license_expiration_date", "medical_license_is_expired",
     "medical_license_status", "medical_license_owner_first_name",
     "medical_license_owner_last_name", "account_name", "account_status",
     "account_has_signed_financial_agreement",
     "account_has_accepted_jet_terms", "agreement_status",
     "agreement_signed_at", "agreement_type", "shipping_address_line1",
     "shipping_address_line2", "shipping_address_city",
     "shipping_address_state", "shipping_address_zip",
     "shipping_address_commercial", "sponsored"}

\* FacilityResponse(success=..., message=...)
FacilityResponse(success, message) ==
    [success |-> success, message |-> message, id |-> None,
     account_id |-> None,
     fields |-> [f \in FacilityResponseFields |-> Null]]

\* FacilityInfo(id=..., name=..., status=...)
FacilityInfo(f) ==
    [id |-> f, name |-> facilities[f].cols.facility_name,
     status |-> facilities[f].cols.status]

---------------------------------------------------------------------------
(* fetch_account_details (tools.py)                                         *)

\* the same query without its WHERE clause
FacilityAccountQueryAnyRow(facility_id) ==
    {facilities[f].account_id : f \in DOMAIN facilities}

\* SELECT account_id FROM facilities WHERE facility_id = %(facility_id)s
FacilityAccountQuery(facility_id) ==
    {facilities[f].account_id : f \in {g \in DOMAIN facilities : g = facility_id}}

\* the success branch: the row of the account and its facilities
AccountProjection(account_id) ==
    LET account == accounts[account_id] IN
    [success |-> TRUE,
     message |-> Message("Account details retrieved successfully", <<>>, <<>>, {}),
     account_id |-> account_id,
     facilities |->
        ListOf({FacilityInfo(f) :
                f \in {g \in DOMAIN facilities :
                        facilities[g].account_id = account_id}}),
     fields |->
       [ name |-> account.account_name,
         status |-> account.status,
         is_tna |-> account.is_tna,
         created_at |-> StrOrNone(account.created_at),
         pricing_model |-> account.pricing_model,
         address_line1 |-> account.address_line1,
         address_line2 |-> account.address_line2,
         address_city |-> account.address_city,
         address_state |-> account.address_state,
         address_postal_code |-> account.address_postal_code,
         address_country |-> account.address_country,
         total_amount_due |-> FloatOrNone(account.total_amount_due),
         total_amount_due_this_week |->
             FloatOrNone(account.total_amount_due_this_week),
         invoice_id |-> account.invoice_id,
         invoice_amount |-> FloatOrNone(account.invoice_amount),
         invoice_due_date |-> account.invoice_due_date,
         current_balance |-> FloatOrNone(account.current_balance),
         pending_balance |-> FloatOrNone(account.pending_balance),
         points_earned_this_quarter |-> account.points_earned_this_quarter,
         current_tier |-> account.current_tier,
         next_tier |-> account.next_tier,
         points_to_next_tier |-> account.points_to_next_tier,
         quarter_end_date |-> StrOrNone(account.quarter_end_date),
         free_vials_available |-> account.free_vials_available,
         rewards_required_for_next_free_vial |->
             account.rewards_required_for_next_free_vial,
         rewards_redeemed_towards_next_free_vial |->
             account.rewards_redeemed_towards_next_free_vial,
         rewards_status |-> account.rewards_status,
         rewards_updated_at |-> StrOrNone(account.rewards_updated_at),
         evolux_level |-> account.evolux_level ]]

\* lines 87-198: the lookup once account_id is resolved (account_id is the
\* primary key, so SELECT * FROM accounts returns at most one row)
AccountLookup(account_id) ==
    IF Blank(account_id)
    THEN AccountResponse(FALSE,
            Message("Please provide account_id to search for account details.",
                    <<>>, <<>>, {}))
    ELSE IF account_id \notin DOMAIN accounts
    THEN AccountResponse(FALSE,
            Message("No account found with account_id '{account_id}'.",
                    <<account_id>>, <<>>, {}))
    ELSE AccountProjection(account_id)

\* lines 46-62: only facility_id given, the account is the facility's owner
CrossReference(facility_id) ==
    LET facility_result == FacilityAccountQuery(facility_id) IN
    IF facility_result # {}
    THEN AccountLookup(CHOOSE a \in facility_result : TRUE)
    ELSE AccountResponse(FALSE,
           Message("Facility '{facility_id}' not found. Cannot determine account information.",
                   <<facility_id>>, <<>>, {}))

\* a lookup that skips the comparison of the facility's owner with account_id
VerifyMatchPreferAccount(account_id, facility_id) ==
    IF FacilityAccountQuery(facility_id) # {}
    THEN AccountLookup(account_id)
    ELSE AccountResponse(FALSE,
           Message("Facility '{facility_id}' not found.",
                   <<facility_id>>, <<>>, {}))

\* a lookup that falls back on account_id when the facility is missing
VerifyMatchMissingFacility(account_id, facility_id) ==
    LET facility_result == FacilityAccountQuery(facility_id) IN
    IF facility_result # {} /\ (CHOOSE a \in facility_result : TRUE) # account_id
    THEN AccountResponse(FALSE,
           Message("Account ID '{account_id}' does not match facility '{facility_id}' which belongs to account '{facility_account_id}'.",
                   <<account_id, facility_id, CHOOSE a \in facility_result : TRUE>>,
                   <<>>, {}))
    ELSE AccountLookup(account_id)

\* lines 64-85: both ids given, verify that they match
VerifyMatch(account_id, facility_id) ==
    LET facility_result == FacilityAccountQuery(facility_id) IN
    IF facility_result # {}
    THEN LET facility_account_id == CHOOSE a \in facility_result : TRUE IN
         IF facility_account_id # account_id
         THEN AccountResponse(FALSE,
                Message("Account ID '{account_id}' does not match facility '{facility_id}' which belongs to account '{facility_account_id}'.",
                        <<account_id, facility_id, facility_account_id>>,
                        <<>>, {}))
         ELSE AccountLookup(account_id)
    ELSE AccountResponse(FALSE,
           Message("Facility '{facility_id}' not found.",
                   <<facility_id>>, <<>>, {}))

fetch_account_details(account_id, facility_id) ==
    IF ~Truthy(account_id) /\ Truthy(facility_id)
    THEN CrossReference(facility_id)
    ELSE IF Truthy(account_id) /\ Truthy(facility_id)
    THEN VerifyMatch(account_id, facility_id)
    ELSE AccountLookup(account_id)

---------------------------------------------------------------------------
(* fetch_facility_details (tools.py)                                        *)

\* the conditions joined with OR
FacilityQueryAnyCondition(account_id, facility_id) ==
    {f \in DOMAIN facilities :
        \/ Truthy(facility_id) /\ f = facility_id
        \/ Truthy(account_id) /\ facilities[f].account_id = account_id}

\* SELECT f.*, a.account_name, a.status as account_status FROM facilities f
\* LEFT JOIN accounts a ON f.account_id = a.account_id WHERE {where_clause}:
\* the conjunction of the conditions of the ids that are truthy
FacilityQuery(account_id, facility_id) ==
    {f \in DOMAIN facilities :
        /\ Truthy(facility_id) => f = facility_id
        /\ Truthy(account_id) => facilities[f].account_id = account_id}

\* a.account_name / a.status of the joined row (NULL when no account joins)
JoinedAccount(f, column) ==
    IF facilities[f].account_id \in DOMAIN accounts
    THEN accounts[facilities[f].account_id][column]
    ELSE Null

\* the single-match branch
FacilityProjection(f) ==
    LET facility == facilities[f].cols IN
    [success |-> TRUE,
     message |-> Message("Facility details retrieved successfully", <<>>, <<>>, {}),
     id |-> f,
     account_id |-> facilities[f].account_id,
     fields |->
       [ name |-> facility.facility_name,
         status |-> facility.status,
         has_signed_medical_liability_agreement |->
             facility.has_signed_medical_liability_agreement,
         medical_license_id |-> facility.medical_license_id,
         medical_license_state |-> facility.medical_license_state,
         medical_license_number |-> facility.medical_license_number,
         medical_license_involvement |-> facility.medical_license_involvement,
         medical_license_expiration_date |->
             StrOrNone(facility.medical_license_expiration_date),
         medical_license_is_expired |-> facility.medical_license_is_expired,
         medical_license_status |-> facility.medical_license_status,
         medical_license_owner_first_name |->
             facility.medical_license_owner_first_name,
         medical_license_owner_last_name |->
             facility.medical_license_owner_last_name,
         account_name |-> JoinedAccount(f, "account_name"),
         account_status |-> JoinedAccount(f, "status"),
         account_has_signed_financial_agreement |->
             facility.account_has_signed_financial_agreement,
         account_has_accepted_jet_terms |->
             facility.account_has_accepted_jet_terms,
         agreement_status |-> facility.agreement_status,
         agreement_signed_at |-> StrOrNone(facility.agreement_signed_at),
         agreement_type |-> facility.agreement_type,
         shipping_address_line1 |-> facility.shipping_address_line1,
         shipping_address_line2 |-> facility.shipping_address_line2,
         shipping_address_city |-> facility.shipping_address_city,
         shipping_address_state |-> facility.shipping_address_state,
         shipping_address_zip |-> facility.shipping_address_zip,
         shipping_address_commercial |-> facility.shipping_address_commercial,
         sponsored |-> facility.sponsored ]]

\* the lines of the multi-match message:
\* "- {facility_name} (ID: {facility_id}) - Account: {account_name}"
FacilityListing(results) ==
    {[facility_name |-> facilities[f].cols.facility_name,
      facility_id |-> f,
      account_name |-> JoinedAccount(f, "account_name")] : f \in results}

fetch_facility_details(account_id, facility_id) ==
    LET results == FacilityQuery(account_id, facility_id) IN
    IF ~Truthy(facility_id) /\ ~Truthy(account_id)
    THEN FacilityResponse(FALSE,
            Message("Please provide facility_id or account_id to search for facility details.",
                    <<>>, <<>>, {}))
    ELSE IF results = {}
    THEN FacilityResponse(FALSE,
            Message("No facilities found with the provided criteria.",
                    <<>>, <<>>, {}))
    ELSE IF Cardinality(results) = 1
    THEN FacilityProjection(CHOOSE f \in results : TRUE)
    ELSE FacilityResponse(TRUE,
            Message("Found {len(results)} facilities matching your criteria:",
                    <<>>, <<Cardinality(results)>>, FacilityListing(results)))

---------------------------------------------------------------------------
(* Direct calls of the tools: the config the caller passes                  *)

NoCall == [op |-> "none"]

\* config["configurable"]["account_id"]: absent, '', blank, an account, an
\* unknown id
AccountArgs == {None, <<>>, <<" ">>, <<"A1">>, <<"A2">>, <<"A9">>}

\* config["configurable"]["facility_id"]
FacilityArgs == {None, <<>>, <<" ">>, <<"F1">>, <<"F2">>, <<"F3">>, <<"F9">>}

\* the store the fetch tools are called against
InitStore ==
    /\ accounts \in AccountTables
    /\ facilities \in FacilityTables
    /\ notes = <<>>
    /\ nextNoteId = 1
    /\ clock = 1
    /\ convos = <<>>
    /\ jsonColumn \in BOOLEAN
    /\ req = <<>>

InitFetch ==
    /\ InitStore
    /\ jsonColumn = TRUE
    /\ call = NoCall
    /\ written = <<>>

\* the caller takes the result; the next call starts from NoCall
Return ==
    /\ call # NoCall
    /\ call' = NoCall
    /\ UNCHANGED <<accounts, facilities, notes, nextNoteId, clock, convos,
                   jsonColumn, written, req>>

CallFetchAccountDetails ==
    /\ call = NoCall
    /\ \E account_id \in AccountArgs, facility_id \in FacilityArgs :
          call' = [op |-> "fetch_account_details",
                   account_id |-> account_id, facility_id |-> facility_id,
                   result |-> fetch_account_details(account_id, facility_id)]
    /\ UNCHANGED <<accounts, facilities, notes, nextNoteId, clock, convos,
                   jsonColumn, written, req>>

CallFetchFacilityDetails ==
    /\ call = NoCall
    /\ \E account_id \in AccountArgs, facility_id \in FacilityArgs :
          call' = [op |-> "fetch_facility_details",
                   account_id |-> account_id, facility_id |-> facility_id,
                   result |-> fetch_facility_details(account_id, facility_id)]
    /\ UNCHANGED <<accounts, facilities, notes, nextNoteId, clock, convos,
                   jsonColumn, written, req>>

NextFetch == CallFetchAccountDetails \/ CallFetchFacilityDetails \/ Return

SpecFetch == InitFetch /\ [][NextFetch]_vars

---------------------------------------------------------------------------
(* Properties of the fetch tools, checked under SpecFetch                   *)

IsFetchAccount == call.op = "fetch_account_details"

IsFetchFacility == call.op = "fetch_facility_details"

\* the facility exists and its owner is not the supplied account_id
MismatchCase ==
    /\ Truthy(call.account_id)
    /\ call.facility_id \in DOMAIN facilities
    /\ facilities[call.facility_id].account_id # call.account_id

\* the result carries no account field
NoAccountData(r) ==
    /\ r.account_id = None
    /\ r.facilities = NoList
    /\ \A f \in AccountResponseFields : r.fields[f] = Null

\* the result carries no facility field
NoFacilityData(r) ==
    /\ r.id = None
    /\ r.account_id = None
    /\ \A f \in FacilityResponseFields : r.fields[f] = Null

\* C4: when the facility exists but belongs to another account than the one
\* supplied, fetch_account_details and fetch_facility_details both return
\* success=false and no account or facility field, only a message.
C4_MismatchReturnsNoData ==
    /\ (IsFetchAccount /\ MismatchCase) =>
          call.result.success = FALSE /\ NoAccountData(call.result)
    /\ (IsFetchFacility /\ MismatchCase) =>
          call.result.success = FALSE /\ NoFacilityData(call.result)

C4_Witness ==
    /\ IsFetchFacility
    /\ MismatchCase
    /\ call.account_id \in DOMAIN accounts
    /\ call.result.success = FALSE

\* C5: with both ids supplied and the facility owned by another account, the
\* failure differs from the failure the same tool returns for a facility_id
\* that matches no facility.
C5_MismatchDistinguishable ==
    /\ (IsFetchAccount /\ MismatchCase) =>
          \A g \in FacilityArgs :
             (Truthy(g) /\ g \notin DOMAIN facilities) =>
                 fetch_account_details(call.account_id, g).message.template
                     # call.result.message.template
    /\ (IsFetchFacility /\ MismatchCase) =>
          \A g \in FacilityArgs :
             (Truthy(g) /\ g \notin DOMAIN facilities) =>
                 fetch_facility_details(call.account_id, g).message.template
                     # call.result.message.template

\* C6: fetch_account_details with only a facility_id of an existing facility
\* returns success=true with the data of the facility's owning account.
C6_FacilityOnlyResolvesOwner ==
    (IsFetchAccount /\ ~Truthy(call.account_id)
        /\ call.facility_id \in DOMAIN facilities) =>
       LET owner == facilities[call.facility_id].account_id IN
       /\ call.result.success = TRUE
       /\ call.result.account_id = owner
       /\ call.result.fields.name = accounts[owner].account_name
       /\ call.result.fields.status = accounts[owner].status
       /\ call.result.facilities.isNone = FALSE
       /\ {i.id : i \in call.result.facilities.items}
             = {f \in DOMAIN facilities : facilities[f].account_id = owner}

C6_Witness ==
    /\ IsFetchAccount
    /\ call.account_id = None
    /\ call.facility_id = <<"F3">>
    /\ facilities[<<"F3">>].account_id = <<"A2">>
    /\ facilities[<<"F1">>].account_id = <<"A1">>
    /\ call.result.account_id = <<"A2">>

FacilityNotFoundTemplates ==
    {"Facility '{facility_id}' not found. Cannot determine account information.",
     "Facility '{facility_id}' not found."}

\* C7: fetch_account_details with a facility_id that matches no facility
\* returns success=false, a facility-not-found message naming that id and no
\* account data, with no account_id and with the id of an existing account.
C7_UnknownFacilityFails ==
    (IsFetchAccount /\ Truthy(call.facility_id)
        /\ call.facility_id \notin DOMAIN facilities
        /\ (~Truthy(call.account_id) \/ call.account_id \in DOMAIN accounts)) =>
       /\ call.result.success = FALSE
       /\ call.result.message.template \in FacilityNotFoundTemplates
       /\ call.result.message.args = <<call.facility_id>>
       /\ NoAccountData(call.result)

C7_Witness ==
    /\ IsFetchAccount
    /\ call.facility_id = <<"F9">>
    /\ call.account_id = <<"A1">>
    /\ call.result.success = FALSE
    /\ call.result.message.template = "Facility '{facility_id}' not found."

\* the call names an account row and no contradicting facility
AccountRowCase ==
    /\ IsFetchAccount
    /\ call.account_id \in DOMAIN accounts
    /\ Truthy(call.facility_id) =>
          /\ call.facility_id \in DOMAIN facilities
          /\ facilities[call.facility_id].account_id = call.account_id

\* the response field that carries a column of accounts
AccountFieldOf(c) == IF c = "account_name" THEN "name" ELSE c

\* C8 as stated: every non-null column of the account row is reproduced
\* unchanged in the result.
C8_EveryColumnReproduced ==
    AccountRowCase =>
       /\ call.result.success = TRUE
       /\ call.result.account_id = call.account_id
       /\ \A c \in AccountColumns :
             accounts[call.account_id][c] # Null =>
                /\ AccountFieldOf(c) \in AccountResponseFields
                /\ call.result.fields[AccountFieldOf(c)]
                      = accounts[call.account_id][c]

\* the form in which a column value appears in the JSON result
Rendered(c, v) ==
    CASE AccountColumnType[c] = "ts" -> StrOf(v)
      [] AccountColumnType[c] = "dec" -> FloatOf(v)
      [] OTHER -> v

\* C8 amended: every non-null column other than updated_at and description
\* is reproduced (account_name as name), timestamps as their str() form and
\* decimals as floats, and nothing else is changed.
C8_ProjectedColumnsReproduced ==
    AccountRowCase =>
       /\ call.result.success = TRUE
       /\ call.result.account_id = call.account_id
       /\ \A c \in AccountColumns \ {"updated_at", "description"} :
             accounts[call.account_id][c] # Null =>
                call.result.fields[AccountFieldOf(c)]
                   = Rendered(c, accounts[call.account_id][c])

C8_Witness ==
    /\ AccountRowCase
    /\ call.account_id = <<"A1">>
    /\ accounts[<<"A1">>].total_amount_due = <<"dec", 0>>
    /\ call.result.fields.total_amount_due = <<"float", 0>>
    /\ call.result.fields.created_at = <<"str(ts)", 1>>

\* the facilities that satisfy every condition of the supplied ids
Matching(account_id, facility_id) ==
    {f \in FacilityIds :
        /\ Truthy(facility_id) => f = facility_id
        /\ Truthy(account_id) => facilities[f].account_id = account_id}

\* C9: fetch_facility_details filters by the conjunction of the supplied
\* ids; one match gives the structured projection of that facility, no match
\* gives success=false with the 'no facilities found' message, several
\* matches give a message listing them and no structured field.
C9_FacilityBranches ==
    (IsFetchFacility /\ (Truthy(call.account_id) \/ Truthy(call.facility_id))) =>
       LET m == Matching(call.account_id, call.facility_id)
           r == call.result IN
       /\ m = {} =>
             /\ r.success = FALSE
             /\ r.message.template
                   = "No facilities found with the provided criteria."
             /\ NoFacilityData(r)
       /\ Cardinality(m) = 1 =>
             /\ r.success = TRUE
             /\ r.id \in m
             /\ r.account_id = facilities[r.id].account_id
             /\ r.fields.name = facilities[r.id].cols.facility_name
             /\ r.fields.status = facilities[r.id].cols.status
             /\ r.fields.account_name
                   = accounts[facilities[r.id].account_id].account_name
             /\ r.message.listing = {}
       /\ Cardinality(m) > 1 =>
             /\ NoFacilityData(r)
             /\ {l.facility_id : l \in r.message.listing} = m
             /\ r.message.nums = <<Cardinality(m)>>

C9_Witness ==
    /\ IsFetchFacility
    /\ call.account_id = <<"A1">>
    /\ ~Truthy(call.facility_id)
    /\ Cardinality(call.result.message.listing) = 2
    /\ call.result.id = None

---------------------------------------------------------------------------
(* The fetch tools called twice with the same config                        *)

\* a resolver that records the supplied account as the owner of the
\* supplied facility
FacilitiesAfterFetchAdopting(account_id, facility_id) ==
    IF account_id \in DOMAIN accounts /\ facility_id \in DOMAIN facilities
    THEN [facilities EXCEPT ![facility_id].account_id = account_id]
    ELSE facilities

\* the facilities after a call of a fetch tool: its statements are SELECTs
FacilitiesAfterFetch(account_id, facility_id) == facilities

\* config["configurable"]["user_id"], which the fetch tools read and print
FetchUserArgs == {None, <<"u1">>}

FetchTools == {"fetch_account_details", "fetch_facility_details"}

\* the result of a fetch tool against the store as it is
FetchResult(tool, account_id, facility_id) ==
    IF tool = "fetch_account_details"
    THEN fetch_account_details(account_id, facility_id)
    ELSE fetch_facility_details(account_id, facility_id)

\* the first call with a config
ResolveFirst ==
    /\ call = NoCall
    /\ \E tool \in FetchTools, account_id \in AccountArgs,
          facility_id \in FacilityArgs, user_id \in FetchUserArgs :
          /\ call' = [op |-> tool, account_id |-> account_id,
                      facility_id |-> facility_id, user_id |-> user_id,
                      calls |-> 1,
                      first |-> FetchResult(tool, account_id, facility_id),
                      result |-> FetchResult(tool, account_id, facility_id)]
          /\ facilities' = FacilitiesAfterFetch(account_id, facility_id)
    /\ UNCHANGED <<accounts, notes, nextNoteId, clock, convos, jsonColumn,
                   written, req>>

\* the same tool called again with the same config
ResolveAgain ==
    /\ call # NoCall
    /\ call.calls = 1
    /\ call' = [call EXCEPT
                  !.calls = 2,
                  !.result = FetchResult(call.op, call.account_id,
                                         call.facility_id)]
    /\ facilities' = FacilitiesAfterFetch(call.account_id, call.facility_id)
    /\ UNCHANGED <<accounts, notes, nextNoteId, clock, convos, jsonColumn,
                   written, req>>

NextResolve == ResolveFirst \/ ResolveAgain \/ Return

SpecResolve == InitFetch /\ [][NextResolve]_vars

---------------------------------------------------------------------------
(* save_note and get_notes (tools.py)                                       *)

\* Optional[int]
NoInt == <<>>

SomeInt(n) == <<n>>

\* NoteResponse(success=..., message=..., note_id=...)
NoteResponse(success, message, note_id) ==
    [success |-> success, message |-> message, note_id |-> note_id]

\* SELECT COUNT(*) FROM accounts WHERE account_id = %(account_id)s
AccountCount(account_id) ==
    Cardinality({a \in DOMAIN accounts : a = account_id})

\* SELECT COUNT(*) FROM facilities WHERE facility_id = %(facility_id)s
FacilityCount(facility_id) ==
    Cardinality({f \in DOMAIN facilities : f = facility_id})

\* `x if x and x.strip() else None`
NoneIfBlank(x) == IF Truthy(x) /\ Truthy(Strip(x)) THEN x ELSE None

Passed == [success |-> TRUE]

\* the existence checks with the facility check left out
SaveNoteExistenceAccountOnly(account_id, facility_id) ==
    IF Truthy(account_id) /\ AccountCount(account_id) = 0
    THEN NoteResponse(FALSE,
           Message("Account with ID '{account_id}' not found. Cannot save note.",
                   <<account_id>>, <<>>, {}), NoInt)
    ELSE Passed

\* lines 408-434: every supplied id must name a row
SaveNoteExistence(account_id, facility_id) ==
    IF Truthy(account_id) /\ AccountCount(account_id) = 0
    THEN NoteResponse(FALSE,
           Message("Account with ID '{account_id}' not found. Cannot save note.",
                   <<account_id>>, <<>>, {}), NoInt)
    ELSE IF Truthy(facility_id) /\ FacilityCount(facility_id) = 0
    THEN NoteResponse(FALSE,
           Message("Facility with ID '{facility_id}' not found. Cannot save note.",
                   <<facility_id>>, <<>>, {}), NoInt)
    ELSE Passed

\* a validation without the check that one of the ids is present
SaveNoteValidationAnyScope(note_content, user_id, account_id, facility_id) ==
    IF Blank(note_content)
    THEN NoteResponse(FALSE,
           Message("Note content cannot be empty. Please provide the note content to save.",
                   <<>>, <<>>, {}), NoInt)
    ELSE IF Blank(user_id)
    THEN NoteResponse(FALSE,
           Message("User ID is required to save a note.", <<>>, <<>>, {}),
           NoInt)
    ELSE SaveNoteExistence(account_id, facility_id)

\* lines 386-434: the failure save_note returns before the insert, or Passed
SaveNoteValidation(note_content, user_id, account_id, facility_id) ==
    IF Blank(note_content)
    THEN NoteResponse(FALSE,
           Message("Note content cannot be empty. Please provide the note content to save.",
                   <<>>, <<>>, {}), NoInt)
    ELSE IF Blank(user_id)
    THEN NoteResponse(FALSE,
           Message("User ID is required to save a note.", <<>>, <<>>, {}),
           NoInt)
    ELSE IF ~Truthy(account_id) /\ ~Truthy(facility_id)
    THEN NoteResponse(FALSE,
           Message("Either account_id or facility_id is required to save a note.",
                   <<>>, <<>>, {}), NoInt)
    ELSE SaveNoteExistence(account_id, facility_id)

\* the row of INSERT INTO notes (account_id, facility_id, user_id,
\* note_content) ... RETURNING note_id, created_at; note_id is the next value
\* of the serial, created_at the time of the insert
NoteRow(note_content, user_id, account_id, facility_id, now) ==
    [note_id |-> nextNoteId,
     account_id |-> NoneIfBlank(account_id),
     facility_id |-> NoneIfBlank(facility_id),
     user_id |-> Strip(user_id),
     note_content |-> Strip(note_content),
     created_at |-> now]

\* lines 462-479: the result of a successful insert
NoteSaved(row) ==
    NoteResponse(TRUE,
        Message("Note saved successfully for {context}! Note ID: {note_id}, Created: {created_at}",
                IF Truthy(row.account_id) /\ Truthy(row.facility_id)
                THEN <<row.account_id, row.facility_id>>
                ELSE IF Truthy(row.account_id) THEN <<row.account_id>>
                ELSE <<row.facility_id>>,
                <<row.note_id, row.created_at>>, {}),
        SomeInt(row.note_id))

\* config["configurable"] of the note tools
NoteContentArgs == {None, <<" ">>, <<" ", "n1", " ">>}

NoteUserArgs == {None, <<" ">>, <<"u1">>, <<" ", "u2">>}

NoteAccountArgs == {<<>>, <<"A1">>, <<"A9">>}

NoteFacilityArgs == {None, <<"F1">>, <<"F3">>, <<"F9">>}

\* save_note: the insert is committed when execute_query leaves its
\* `with conn` block
CallSaveNote ==
    /\ call = NoCall
    /\ \E note_content \in NoteContentArgs, user_id \in NoteUserArgs,
          account_id \in NoteAccountArgs, facility_id \in NoteFacilityArgs,
          now \in {clock, clock + 1} :
          LET failure == SaveNoteValidation(note_content, user_id,
                                            account_id, facility_id)
              row == NoteRow(note_content, user_id, account_id,
                             facility_id, now)
              args == [op |-> "save_note", note_content |-> note_content,
                       user_id |-> user_id, account_id |-> account_id,
                       facility_id |-> facility_id,
                       notes_before |-> notes]
          IN
          IF failure # Passed
          THEN /\ call' = args @@ [result |-> failure]
               /\ UNCHANGED <<notes, nextNoteId, clock>>
          ELSE /\ Len(notes) < MaxNotes
               /\ notes' = Append(notes, row)
               /\ nextNoteId' = nextNoteId + 1
               /\ clock' = now
               /\ call' = args @@ [result |-> NoteSaved(row)]
    /\ UNCHANGED <<accounts, facilities, convos, jsonColumn, written, req>>


\* NoteInfo(note_id=..., note_content=..., user_id=..., created_at=str(...))
NoteInfo(note) ==
    [note_id |-> note.note_id, note_content |-> note.note_content,
     user_id |-> note.user_id, created_at |-> StrOf(<<"ts", note.created_at>>)]

\* NotesListResponse(success=..., message=..., notes=..., total_count=...)
NotesListResponse(success, message, notes_list, total_count) ==
    [success |-> success, message |-> message, notes |-> notes_list,
     total_count |-> total_count]

\* config.get("configurable", {}).get("limit", 10)
DefaultLimit == 10

LimitOf(limit) == IF limit = NoInt THEN DefaultLimit ELSE limit[1]

\* lines 517-558: the failure get_notes returns before the query, or Passed
GetNotesValidation(user_id, account_id, facility_id) ==
    IF Blank(user_id)
    THEN NotesListResponse(FALSE,
           Message("User ID is required to retrieve notes.", <<>>, <<>>, {}),
           <<>>, 0)
    ELSE IF ~Truthy(account_id) /\ ~Truthy(facility_id)
    THEN NotesListResponse(FALSE,
           Message("Either account_id or facility_id is required to retrieve notes.",
                   <<>>, <<>>, {}), <<>>, 0)
    ELSE IF Truthy(account_id) /\ AccountCount(account_id) = 0
    THEN NotesListResponse(FALSE,
           Message("Account with ID '{account_id}' not found.",
                   <<account_id>>, <<>>, {}), <<>>, 0)
    ELSE IF Truthy(facility_id) /\ FacilityCount(facility_id) = 0
    THEN NotesListResponse(FALSE,
           Message("Facility with ID '{facility_id}' not found.",
                   <<facility_id>>, <<>>, {}), <<>>, 0)
    ELSE Passed

\* a WHERE clause whose account-only and facility-only queries leave out the
\* IS NULL condition on the other id
NotesWhereAnyTag(note, user_id, account_id, facility_id) ==
    LET a == NoneIfBlank(account_id)
        f == NoneIfBlank(facility_id) IN
    IF Truthy(a) /\ Truthy(f)
    THEN /\ \/ note.account_id = a /\ note.facility_id = None
            \/ note.facility_id = f /\ note.account_id = None
            \/ note.account_id = a /\ note.facility_id = f
         /\ note.user_id = Strip(user_id)
    ELSE IF Truthy(a)
    THEN /\ note.account_id = a
         /\ note.user_id = Strip(user_id)
    ELSE /\ note.facility_id = f
         /\ note.user_id = Strip(user_id)

\* a WHERE clause without the condition on user_id
NotesWhereAnyUser(note, user_id, account_id, facility_id) ==
    LET a == NoneIfBlank(account_id)
        f == NoneIfBlank(facility_id) IN
    IF Truthy(a) /\ Truthy(f)
    THEN \/ note.account_id = a /\ note.facility_id = None
         \/ note.facility_id = f /\ note.account_id = None
         \/ note.account_id = a /\ note.facility_id = f
    ELSE IF Truthy(a)
    THEN note.account_id = a /\ note.facility_id = None
    ELSE note.facility_id = f /\ note.account_id = None

\* the WHERE clause of the three queries of lines 564-597
NotesWhere(note, user_id, account_id, facility_id) ==
    LET a == NoneIfBlank(account_id)
        f == NoneIfBlank(facility_id) IN
    IF Truthy(a) /\ Truthy(f)
    THEN /\ \/ note.account_id = a /\ note.facility_id = None
            \/ note.facility_id = f /\ note.account_id = None
            \/ note.account_id = a /\ note.facility_id = f
         /\ note.user_id = Strip(user_id)
    ELSE IF Truthy(a)
    THEN /\ note.account_id = a
         /\ note.facility_id = None
         /\ note.user_id = Strip(user_id)
    ELSE /\ note.facility_id = f
         /\ note.account_id = None
         /\ note.user_id = Strip(user_id)

\* ORDER BY created_at DESC: every order of the rows in which created_at
\* does not increase (rows of equal created_at come in any order)
OrderByCreatedAtDesc(rows) ==
    {s \in [1..Cardinality(rows) -> rows] :
        /\ \A i, j \in 1..Cardinality(rows) : i # j => s[i] # s[j]
        /\ \A i, j \in 1..Cardinality(rows) :
              i < j => s[i].created_at >= s[j].created_at}

\* a query without its LIMIT
LimitIgnored(s, limit) == s

\* LIMIT %(limit)s
Limit(s, limit) == SubSeq(s, 1, IF Len(s) < limit THEN Len(s) ELSE limit)

\* the rows db.execute_query(notes_query, params) may return
NotesQuery(user_id, account_id, facility_id, limit) ==
    {Limit(s, limit) :
        s \in OrderByCreatedAtDesc(
                {notes[i] : i \in {k \in 1..Len(notes) :
                    NotesWhere(notes[k], user_id, account_id, facility_id)}})}

\* the {context} of the messages of get_notes
NotesContext(account_id, facility_id) ==
    LET a == NoneIfBlank(account_id)
        f == NoneIfBlank(facility_id) IN
    IF Truthy(a) /\ Truthy(f) THEN <<a, f>>
    ELSE IF Truthy(a) THEN <<a>> ELSE <<f>>

\* lines 599-643: the response built from the rows
NotesFound(rows, account_id, facility_id) ==
    IF rows = <<>>
    THEN NotesListResponse(TRUE,
           Message("No notes found for {context}.",
                   NotesContext(account_id, facility_id), <<>>, {}),
           <<>>, 0)
    ELSE NotesListResponse(TRUE,
           Message("Retrieved {len(notes)} notes for {context}",
                   NotesContext(account_id, facility_id), <<Len(rows)>>, {}),
           [i \in 1..Len(rows) |-> NoteInfo(rows[i])], Len(rows))

\* the results get_notes may return
get_notes(user_id, account_id, facility_id, limit) ==
    LET failure == GetNotesValidation(user_id, account_id, facility_id) IN
    IF failure # Passed
    THEN {failure}
    ELSE {NotesFound(rows, account_id, facility_id) :
            rows \in NotesQuery(user_id, account_id, facility_id,
                                LimitOf(limit))}

LimitArgs == {NoInt, SomeInt(1)}

CallGetNotes ==
    /\ call = NoCall
    /\ \E user_id \in NoteUserArgs, account_id \in NoteAccountArgs,
          facility_id \in NoteFacilityArgs, limit \in LimitArgs :
          \E result \in get_notes(user_id, account_id, facility_id, limit) :
             call' = [op |-> "get_notes", user_id |-> user_id,
                      account_id |-> account_id,
                      facility_id |-> facility_id, limit |-> limit,
                      result |-> result]
    /\ UNCHANGED <<accounts, facilities, notes, nextNoteId, clock, convos,
                   jsonColumn, written, req>>

\* the store of the note tools: F1 and F2 belong to A1, F3 to A2
InitNotes ==
    /\ InitStore
    /\ jsonColumn = TRUE
    /\ \A a \in AccountIds : accounts[a] = AccountRow("full", IF a = <<"A1">> THEN 1 ELSE 2)
    /\ facilities[<<"F1">>].account_id = <<"A1">>
    /\ facilities[<<"F2">>].account_id = <<"A1">>
    /\ facilities[<<"F3">>].account_id = <<"A2">>
    /\ call = NoCall
    /\ written = <<>>

NextNotes == CallSaveNote \/ CallGetNotes \/ Return

SpecNotes == InitNotes /\ [][NextNotes]_vars

---------------------------------------------------------------------------
(* Properties of the note tools, checked under SpecNotes                    *)

IsSaveNote == call.op = "save_note"

\* the condition under which save_note is to insert
SaveNoteAccepts ==
    /\ ~Blank(call.note_content)
    /\ ~Blank(call.user_id)
    /\ Truthy(call.account_id) \/ Truthy(call.facility_id)
    /\ Truthy(call.account_id) => call.account_id \in DOMAIN accounts
    /\ Truthy(call.facility_id) => call.facility_id \in DOMAIN facilities

\* C10: save_note inserts exactly one note and returns its generated note_id
\* when content and user_id are non-blank, an id is present and every
\* supplied id names a row; in every other case it returns success=false
\* with a message and leaves the notes as they were.
C10_SaveNoteInsertsIffValid ==
    IsSaveNote =>
       /\ SaveNoteAccepts =>
             /\ call.result.success = TRUE
             /\ Len(notes) = Len(call.notes_before) + 1
             /\ SubSeq(notes, 1, Len(call.notes_before)) = call.notes_before
             /\ call.result.note_id = SomeInt(notes[Len(notes)].note_id)
             /\ \A i \in 1..Len(call.notes_before) :
                   notes[i].note_id # notes[Len(notes)].note_id
             /\ notes[Len(notes)].note_content = Strip(call.note_content)
             /\ notes[Len(notes)].user_id = Strip(call.user_id)
       /\ ~SaveNoteAccepts =>
             /\ call.result.success = FALSE
             /\ call.result.message.template # ""
             /\ call.result.note_id = NoInt
             /\ notes = call.notes_before

C10_Witness ==
    /\ IsSaveNote
    /\ SaveNoteAccepts
    /\ call.account_id = <<"A1">>
    /\ call.facility_id = <<"F1">>
    /\ Len(call.notes_before) = 1
    /\ Len(notes) = 2
    /\ call.result.note_id = SomeInt(2)

IsGetNotes == call.op = "get_notes"

\* the row inserted by the last successful save_note
LastSaved == notes[Len(notes)]

\* the stored row a returned NoteInfo was built from
NoteOfId(note_id) ==
    CHOOSE n \in {notes[i] : i \in 1..Len(notes)} : n.note_id = note_id

\* get_notes was called with the user and the scoping ids of the last
\* successful save_note, and no save_note came in between
GetFollowsSave ==
    /\ IsGetNotes
    /\ notes # <<>>
    /\ Strip(call.user_id) = LastSaved.user_id
    /\ NoneIfBlank(call.account_id) = LastSaved.account_id
    /\ NoneIfBlank(call.facility_id) = LastSaved.facility_id

\* C11: after any earlier save_note calls, a successful save_note followed
\* immediately by get_notes with the same scoping ids returns a list whose
\* first element is the note just saved.
C11_JustSavedComesFirst ==
    GetFollowsSave =>
       /\ call.result.success = TRUE
       /\ call.result.notes # <<>>
       /\ call.result.notes[1].note_id = LastSaved.note_id

\* the ids the call was scoped to, after the NULL handling of lines 561-562
ScopeAccount == NoneIfBlank(call.account_id)

ScopeFacility == NoneIfBlank(call.facility_id)

\* C12: get_notes returns only notes of the scope asked for: with only
\* account_id X, notes tagged X with no facility; with only facility_id Y,
\* notes tagged Y with no account; with both, notes that are X-only, Y-only
\* or tagged with both X and Y; never a note of another account or facility.
C12_GetNotesScoped ==
    (IsGetNotes /\ call.result.success) =>
       \A i \in 1..Len(call.result.notes) :
          /\ \E k \in 1..Len(notes) :
                notes[k].note_id = call.result.notes[i].note_id
          /\ LET n == NoteOfId(call.result.notes[i].note_id) IN
             /\ call.result.notes[i].note_content = n.note_content
             /\ (Truthy(ScopeAccount) /\ ~Truthy(ScopeFacility)) =>
                   (n.account_id = ScopeAccount /\ n.facility_id = None)
             /\ (~Truthy(ScopeAccount) /\ Truthy(ScopeFacility)) =>
                   (n.facility_id = ScopeFacility /\ n.account_id = None)
             /\ (Truthy(ScopeAccount) /\ Truthy(ScopeFacility)) =>
                   \/ n.account_id = ScopeAccount /\ n.facility_id = None
                   \/ n.facility_id = ScopeFacility /\ n.account_id = None
                   \/ n.account_id = ScopeAccount
                         /\ n.facility_id = ScopeFacility

\* an account-only get_notes returned the account's note while a note of the
\* same user tagged with the account and a facility is stored
C12_Witness ==
    /\ IsGetNotes
    /\ call.account_id = <<"A1">>
    /\ ~Truthy(call.facility_id)
    /\ call.limit = NoInt
    /\ Len(call.result.notes) = 1
    /\ \E k \in 1..Len(notes) :
          /\ notes[k].account_id = <<"A1">>
          /\ notes[k].facility_id = <<"F1">>
          /\ notes[k].user_id = Strip(call.user_id)

\* the stored notes a get_notes call matches
MatchingNotes ==
    {k \in 1..Len(notes) :
        /\ notes[k].user_id = Strip(call.user_id)
        /\ \/ /\ Truthy(ScopeAccount)
              /\ notes[k].account_id = ScopeAccount
              /\ notes[k].facility_id \in {None, ScopeFacility}
           \/ /\ Truthy(ScopeFacility)
              /\ notes[k].facility_id = ScopeFacility
              /\ notes[k].account_id \in {None, ScopeAccount}}

\* at most limit notes, as many as match up to the limit, newest first
ListsNewestFirst ==
    LET r == call.result
        m == Cardinality(MatchingNotes)
        l == LimitOf(call.limit) IN
    /\ r.success = TRUE
    /\ Len(r.notes) <= l
    /\ Len(r.notes) = IF m < l THEN m ELSE l
    /\ r.total_count = Len(r.notes)
    /\ \A i, j \in 1..Len(r.notes) :
          i < j => /\ r.notes[i].note_id # r.notes[j].note_id
                   /\ NoteOfId(r.notes[i].note_id).created_at
                         >= NoteOfId(r.notes[j].note_id).created_at
    /\ \A i \in 1..Len(r.notes), k \in MatchingNotes :
          (\A j \in 1..Len(r.notes) : r.notes[j].note_id # notes[k].note_id)
             => NoteOfId(r.notes[i].note_id).created_at >= notes[k].created_at

GetNotesBlankInput ==
    \/ Blank(call.user_id)
    \/ ~Truthy(call.account_id) /\ ~Truthy(call.facility_id)

GetNotesUnknownId ==
    \/ Truthy(call.account_id) /\ call.account_id \notin DOMAIN accounts
    \/ Truthy(call.facility_id) /\ call.facility_id \notin DOMAIN facilities

\* C13 as stated: get_notes fails if user_id is blank or no id is present,
\* and for every other input returns success=true with at most limit notes
\* (default 10), newest first.
C13_FailsOnlyOnBlankInput ==
    IsGetNotes =>
       /\ GetNotesBlankInput => call.result.success = FALSE
       /\ ~GetNotesBlankInput => ListsNewestFirst

\* C13: get_notes fails if user_id is blank, if no id is present or if a
\* supplied id names no row, and then returns no notes; for every other
\* input it returns success=true with at most limit notes (default 10),
\* newest first.
C13_FailsOnBlankOrUnknown ==
    IsGetNotes =>
       /\ (GetNotesBlankInput \/ GetNotesUnknownId) =>
             /\ call.result.success = FALSE
             /\ call.result.notes = <<>>
             /\ call.result.total_count = 0
       /\ ~(GetNotesBlankInput \/ GetNotesUnknownId) => ListsNewestFirst

\* two notes match and the limit of 1 returned one of them
C13_Witness ==
    /\ IsGetNotes
    /\ ~GetNotesBlankInput
    /\ ~GetNotesUnknownId
    /\ call.limit = SomeInt(1)
    /\ Cardinality(MatchingNotes) = 2
    /\ Len(call.result.notes) = 1

\* a notes row belongs to a user and to an account or a facility
BelongsSomewhere(note) ==
    /\ note.user_id # None
    /\ ~Blank(note.user_id)
    /\ note.account_id # None \/ note.facility_id # None

\* C23: every stored note belongs to a non-blank user_id and has at least
\* one of account_id, facility_id non-null; whatever config save_note is
\* given (ids absent, empty, blank, known or unknown), the row it inserts
\* once its checks pass is such a row (the accounts and facilities do not
\* change, so the configs are run against the store before the first call).
C23_NotesBelongSomewhere ==
    /\ \A k \in 1..Len(notes) : BelongsSomewhere(notes[k])
    /\ (call = NoCall /\ notes = <<>>) =>
       \A note_content \in NoteContentArgs, user_id \in NoteUserArgs,
          account_id \in AccountArgs, facility_id \in FacilityArgs :
          SaveNoteValidation(note_content, user_id, account_id, facility_id)
             = Passed
          => BelongsSomewhere(NoteRow(note_content, user_id, account_id,
                                      facility_id, clock))

\* a note with no account and a note with no facility are stored
C23_Witness ==
    /\ Len(notes) = 2
    /\ notes[1].account_id = None
    /\ notes[1].facility_id = <<"F1">>
    /\ notes[2].account_id = <<"A1">>
    /\ notes[2].facility_id = None
    /\ notes[2].user_id = <<"u2">>

\* C28: every stored note that carries both an account_id and a facility_id
\* has a facility owned by that account.
C28_FacilityOwnedByAccount ==
    \A k \in 1..Len(notes) :
       (notes[k].account_id # None /\ notes[k].facility_id # None) =>
          facilities[notes[k].facility_id].account_id = notes[k].account_id

\* the user_id get_notes searched under
SearchedUser == Strip(call.user_id)

\* C29: get_notes called with user_id u never returns a note whose stored
\* user_id differs from u, whatever account_id and facility_id it is given;
\* a note another user saved on the same account or facility is not
\* disclosed.
C29_OnlyOwnNotes ==
    (IsGetNotes /\ call.result.success) =>
       \A i \in 1..Len(call.result.notes) :
          /\ call.result.notes[i].user_id = SearchedUser
          /\ \A k \in 1..Len(notes) :
                notes[k].note_id = call.result.notes[i].note_id
                   => notes[k].user_id = SearchedUser

\* u1 got its note of account A1 while a note of u2 on A1 is stored
C29_Witness ==
    /\ IsGetNotes
    /\ SearchedUser = <<"u1">>
    /\ call.account_id = <<"A1">>
    /\ ~Truthy(call.facility_id)
    /\ Len(call.result.notes) = 1
    /\ \E k \in 1..Len(notes) :
          /\ notes[k].user_id = <<"u2">>
          /\ notes[k].account_id = <<"A1">>
          /\ notes[k].facility_id = None

---------------------------------------------------------------------------
(* ConversationService (conversation_service.py)                            *)
(* convos maps a conversation_id to its row; the created_at and updated_at  *)
(* columns are not modelled.                                                *)

\* {"role": role, "content": content}
Msg(role, content) == [role |-> role, content |-> content]

\* a JSON text is a sequence of tokens: punctuation and string literals
Punct(p) == [t |-> "punct", v |-> <<p>>]

StringLiteral(str) == [t |-> "string", v |-> str]

\* json.dumps of one message
DumpMessage(m) ==
    <<Punct("{"), StringLiteral(<<"role">>), StringLiteral(m.role),
      StringLiteral(<<"content">>), StringLiteral(m.content), Punct("}")>>

RECURSIVE DumpMessages(_)
DumpMessages(history) ==
    IF history = <<>> THEN <<>>
    ELSE DumpMessage(Head(history)) \o DumpMessages(Tail(history))

\* json.dumps(conversation_history)
json_dumps(history) == <<Punct("[")>> \o DumpMessages(history) \o <<Punct("]")>>

\* the objects of a JSON array body, six tokens each
RECURSIVE LoadMessages(_)
LoadMessages(tokens) ==
    IF Len(tokens) < 6 THEN <<>>
    ELSE <<Msg(tokens[3].v, tokens[5].v)>>
            \o LoadMessages(SubSeq(tokens, 7, Len(tokens)))

\* a JSON reader that drops the last object of the array
json_loads_truncating(text) ==
    LET loaded == LoadMessages(SubSeq(text, 2, Len(text) - 1)) IN
    IF loaded = <<>> THEN loaded ELSE SubSeq(loaded, 1, Len(loaded) - 1)

\* json.loads(text)
json_loads(text) == LoadMessages(SubSeq(text, 2, Len(text) - 1))

\* the conversation_history column: NULL, or the JSON text
SqlNull == [isNull |-> TRUE, text |-> <<>>]

SqlText(text) == [isNull |-> FALSE, text |-> text]

\* lines 59-65: a json/jsonb column comes back parsed by the driver, a text
\* column as a str that the service parses; NULL becomes []
LoadedHistory(column) ==
    IF column.isNull THEN <<>>
    ELSE IF jsonColumn THEN json_loads(column.text)
    ELSE json_loads(column.text)

\* a get_conversation that answers an unknown id with an empty conversation
get_conversation_or_empty(conversation_id) ==
    IF conversation_id \in DOMAIN convos
    THEN <<[conversation_id |-> conversation_id,
            conversation_history |->
                LoadedHistory(convos[conversation_id].conversation_history),
            account_id |-> convos[conversation_id].account_id,
            facility_id |-> convos[conversation_id].facility_id]>>
    ELSE <<[conversation_id |-> conversation_id,
            conversation_history |-> <<>>,
            account_id |-> None, facility_id |-> None]>>

\* get_conversation: <<>> for None, <<record>> for the dict
get_conversation(conversation_id) ==
    IF conversation_id \in DOMAIN convos
    THEN <<[conversation_id |-> conversation_id,
            conversation_history |->
                LoadedHistory(convos[conversation_id].conversation_history),
            account_id |-> convos[conversation_id].account_id,
            facility_id |-> convos[conversation_id].facility_id]>>
    ELSE <<>>

\* the same query without its WHERE clause
conversation_exists_any_row(conversation_id) == DOMAIN convos # {}

\* conversation_exists: SELECT 1 FROM convos WHERE conversation_id = %s
conversation_exists(conversation_id) == conversation_id \in DOMAIN convos

\* an UPDATE that appends to the stored history instead of replacing it
UpdatedConvosMerging(conversation_id, conversation_history) ==
    IF conversation_id \in DOMAIN convos
    THEN [convos EXCEPT ![conversation_id].conversation_history =
            SqlText(json_dumps(LoadedHistory(@) \o conversation_history))]
    ELSE convos

\* UPDATE convos SET conversation_history = %s ... WHERE conversation_id = %s
UpdatedConvos(conversation_id, conversation_history) ==
    IF conversation_id \in DOMAIN convos
    THEN [convos EXCEPT ![conversation_id].conversation_history =
            SqlText(json_dumps(conversation_history))]
    ELSE convos

\* INSERT INTO convos (conversation_id, conversation_history, account_id,
\* facility_id) VALUES (%s, %s, %s, %s)
InsertedConvos(conversation_id, conversation_history, account_id, facility_id) ==
    (conversation_id :>
        [conversation_history |-> SqlText(json_dumps(conversation_history)),
         account_id |-> account_id, facility_id |-> facility_id]) @@ convos

\* the history last passed to create_conversation or update_conversation
\* for a conversation_id, and by which of the two
Written(operation, conversation_id, conversation_history) ==
    (conversation_id :>
        [op |-> operation, conversation_history |-> conversation_history])
    @@ written

\* the values str(uuid.uuid4()) may take: an id no conversation has
ConvIdPool == {<<"c1">>, <<"c2">>, <<"c3">>}

\* an id generator that may repeat an id already stored
Uuid4Repeating == ConvIdPool

Uuid4 == ConvIdPool \ DOMAIN convos

\* the messages and histories of the direct calls
SessionMessages ==
    {Msg(<<"user">>, <<"m1">>), Msg(<<"assistant">>, <<"r1">>)}

RECURSIVE SeqsUpTo(_, _)
SeqsUpTo(S, n) ==
    IF n = 0 THEN {<<>>}
    ELSE LET shorter == SeqsUpTo(S, n - 1) IN
         shorter \cup {Append(h, m) : h \in shorter, m \in S}

Histories == SeqsUpTo(SessionMessages, MaxHistoryLen)

ConvIdArgs == ConvIdPool \cup {<<"c9">>}

SessionContextArgs == {<<<<"A1">>, None>>}

CallCreateConversation ==
    /\ call = NoCall
    /\ Cardinality(DOMAIN convos) < MaxConvos
    /\ \E conversation_history \in Histories, ctx \in SessionContextArgs,
          conversation_id \in Uuid4 :
          /\ convos' = InsertedConvos(conversation_id, conversation_history,
                                      ctx[1], ctx[2])
          /\ written' = Written("create", conversation_id, conversation_history)
          /\ call' = [op |-> "create_conversation",
                      conversation_history |-> conversation_history,
                      result |-> conversation_id]
    /\ UNCHANGED <<accounts, facilities, notes, nextNoteId, clock,
                   jsonColumn, req>>

CallUpdateConversation ==
    /\ call = NoCall
    /\ \E conversation_id \in ConvIdArgs, conversation_history \in Histories :
          /\ convos' = UpdatedConvos(conversation_id, conversation_history)
          /\ written' = IF conversation_id \in DOMAIN convos
                        THEN Written("update", conversation_id,
                                     conversation_history)
                        ELSE written
          /\ call' = [op |-> "update_conversation",
                      conversation_id |-> conversation_id,
                      conversation_history |-> conversation_history,
                      result |-> conversation_id \in DOMAIN convos]
    /\ UNCHANGED <<accounts, facilities, notes, nextNoteId, clock,
                   jsonColumn, req>>

CallGetConversation ==
    /\ call = NoCall
    /\ \E conversation_id \in ConvIdArgs :
          call' = [op |-> "get_conversation",
                   conversation_id |-> conversation_id,
                   result |-> get_conversation(conversation_id)]
    /\ UNCHANGED <<accounts, facilities, notes, nextNoteId, clock, convos,
                   jsonColumn, written, req>>

CallConversationExists ==
    /\ call = NoCall
    /\ \E conversation_id \in ConvIdArgs :
          call' = [op |-> "conversation_exists",
                   conversation_id |-> conversation_id,
                   result |-> conversation_exists(conversation_id)]
    /\ UNCHANGED <<accounts, facilities, notes, nextNoteId, clock, convos,
                   jsonColumn, written, req>>

\* the store of the session calls: no conversation yet; the history column
\* is a text column, the one whose value the service parses itself
InitSession ==
    /\ InitStore
    /\ \A a \in AccountIds : accounts[a] = AccountRow("full", IF a = <<"A1">> THEN 1 ELSE 2)
    /\ facilities[<<"F1">>].account_id = <<"A1">>
    /\ facilities[<<"F2">>].account_id = <<"A1">>
    /\ facilities[<<"F3">>].account_id = <<"A2">>
    /\ call = NoCall
    /\ jsonColumn = FALSE
    /\ written = <<>>

NextSession ==
    \/ CallCreateConversation
    \/ CallUpdateConversation
    \/ CallGetConversation
    \/ CallConversationExists
    \/ Return

SpecSession == InitSession /\ [][NextSession]_vars

\* C1: get_conversation of a conversation returns exactly the history last
\* written to it: after create(H0) and update(id, H1) it returns H1, the same
\* messages in the same order, nothing of H0 merged in and nothing lost.
C1_GetReturnsLastWritten ==
    (call.op = "get_conversation" /\ call.conversation_id \in DOMAIN written) =>
       /\ call.result # <<>>
       /\ call.result[1].conversation_id = call.conversation_id
       /\ call.result[1].conversation_history
             = written[call.conversation_id].conversation_history

C1_Witness ==
    /\ call.op = "get_conversation"
    /\ call.conversation_id \in DOMAIN written
    /\ written[call.conversation_id].op = "update"
    /\ call.result # <<>>
    /\ call.result[1].conversation_history
          = <<Msg(<<"assistant">>, <<"r1">>), Msg(<<"user">>, <<"m1">>)>>

\* C21: the three session operations agree on existence: for every id
\* conversation_exists is true exactly when get_conversation returns a
\* record, update_conversation returns true exactly in that case, and an
\* update that matches no record returns false and creates no record.
C21_SessionOpsAgree ==
    [][/\ \A id \in ConvIdArgs :
             conversation_exists(id) <=> get_conversation(id) # <<>>
       /\ call'.op = "conversation_exists" =>
             /\ call'.result = (get_conversation(call'.conversation_id) # <<>>)
             /\ UNCHANGED convos
       /\ call'.op = "get_conversation" =>
             /\ (call'.result # <<>>)
                   = conversation_exists(call'.conversation_id)
             /\ UNCHANGED convos
       /\ call'.op = "update_conversation" =>
             /\ call'.result = conversation_exists(call'.conversation_id)
             /\ call'.result = (get_conversation(call'.conversation_id) # <<>>)
             /\ DOMAIN convos' = DOMAIN convos
             /\ ~call'.result => convos' = convos]_vars

\* an update of the unknown id c9 returned false beside a stored
\* conversation, and c9 has no record
C21_Witness ==
    /\ call.op = "update_conversation"
    /\ call.conversation_id = <<"c9">>
    /\ call.result = FALSE
    /\ Cardinality(DOMAIN convos) = 1
    /\ ~conversation_exists(<<"c9">>)
    /\ get_conversation(<<"c9">>) = <<>>

---------------------------------------------------------------------------
(* POST /chat (web_api.py) and chat_with_agent (app.py)                     *)

Requests == 1..NumRequests

\* a validation that lets a blank user_id through
ValidChatRequestAnyUser(body) ==
    /\ body.message # None
    /\ body.user_id # None
    /\ ~(Blank(body.account_id) /\ Blank(body.facility_id))

\* ChatRequest(**request.get_json()): message and user_id are required,
\* user_id must not be blank and one of account_id, facility_id must not be
\* blank (models.py lines 122-143); a missing message is None here
ValidChatRequest(body) ==
    /\ body.message # None
    /\ body.user_id # None
    /\ ~Blank(body.user_id)
    /\ ~(Blank(body.account_id) /\ Blank(body.facility_id))

\* `x.strip() if x else ''`
StripOrEmpty(x) == IF Truthy(x) THEN Strip(x) ELSE <<>>

\* ', '.join(parts)
RECURSIVE Join(_)
Join(parts) ==
    IF parts = <<>> THEN <<>>
    ELSE IF Len(parts) = 1 THEN parts[1]
    ELSE parts[1] \o <<", ">> \o Join(Tail(parts))

\* lines 106-118: "[Account Context: a, Facility Context: f, User Context: u] message"
ContextualMessage(account_id, facility_id, user_id, message) ==
    LET context_parts ==
            (IF Truthy(account_id)
             THEN <<(<<"Account Context: ">> \o account_id)>> ELSE <<>>)
         \o (IF Truthy(facility_id)
             THEN <<(<<"Facility Context: ">> \o facility_id)>> ELSE <<>>)
         \o (IF Truthy(user_id)
             THEN <<(<<"User Context: ">> \o user_id)>> ELSE <<>>)
    IN IF context_parts # <<>>
       THEN <<"[">> \o Join(context_parts) \o <<"]", " ">> \o message
       ELSE message

\* an AccountResponse, FacilityResponse or NotesListResponse the model put
\* into its structured response
Payload(kind) == <<kind>>

\* AgentStructuredResponse(...).model_dump()
StructuredResponse(final_response, response_type, account_details, facility_details, notes_data, message) ==
    [final_response |-> final_response, response_type |-> response_type,
     account_details |-> account_details,
     facility_details |-> facility_details, notes_data |-> notes_data,
     message |-> message, conversation_id |-> None, user_id |-> None,
     error |-> FALSE]

\* an except branch that returns what the failed turn had gathered
ErrorResultKeepingPayload(user_id) ==
    [final_response |-> <<"Sorry, I encountered an error: ">>,
     response_type |-> "account_overview", conversation_id |-> None,
     user_id |-> user_id, message |-> None, error |-> TRUE,
     account_details |-> Payload("account")]

\* lines 182-191: the dict of the except branch
ErrorResult(user_id) ==
    [final_response |-> <<"Sorry, I encountered an error: ">>,
     response_type |-> "conversational", conversation_id |-> None,
     user_id |-> user_id, message |-> None, error |-> TRUE]

\* the results chat_with_agent returns to overlapping requests: the dump of
\* a structured response of the model, or the error dict of its except branch
AgentResults ==
    {StructuredResponse(<<"reply">>, "conversational", None, None, None, None),
     ErrorResult(<<"u1">>)}

NoResult == [final_response |-> <<>>, response_type |-> "", error |-> FALSE]

\* result.get(key): None when the dict has no such key
Get(result, key) == IF key \in DOMAIN result THEN result[key] ELSE None

\* result.get("final_response", result.get("response", "I'm not sure ..."))
ResponseText(result) == result.final_response

\* a history to which only the reply is appended
UpdatedConversationHistoryReplyOnly(r) ==
    Append(req[r].conversation_history,
           Msg(<<"assistant">>, ResponseText(req[r].result)))

\* lines 125-130: the loaded history, the user message and the reply
UpdatedConversationHistory(r) ==
    req[r].conversation_history
       \o <<Msg(<<"user">>, req[r].contextual_message),
            Msg(<<"assistant">>, ResponseText(req[r].result))>>

IdleRequest ==
    [pc |-> "idle", message |-> <<>>, account_id |-> <<>>,
     facility_id |-> <<>>, user_id |-> <<>>, conversation_id |-> <<>>,
     conversation_history |-> <<>>, contextual_message |-> <<>>,
     result |-> NoResult, saved_note |-> FALSE, http |-> 0,
     response |-> <<>>, body |-> <<>>, invocations |-> 0]

\* the body of an error response
ErrorBody(error) == [error |-> error, status |-> "error"]

\* lines 145-177: response_data
ResponseData(result, conversation_id, account_id, facility_id, user_id) ==
    LET response_type == Get(result, "response_type") IN
    [final_response |-> Get(result, "final_response"),
     conversation_id |-> conversation_id, status |-> "success"]
    @@ (IF Truthy(Get(result, "message"))
        THEN [message |-> Get(result, "message")] ELSE <<>>)
    @@ (IF response_type \in {"account_overview", "facility_overview",
                              "notes_overview"}
        THEN [response_type |-> response_type]
             @@ (IF Truthy(Get(result, "account_details"))
                 THEN [account_details |-> Get(result, "account_details")]
                 ELSE <<>>)
             @@ (IF Truthy(Get(result, "facility_details"))
                 THEN [facility_details |-> Get(result, "facility_details")]
                 ELSE <<>>)
             @@ (IF Truthy(Get(result, "notes_data"))
                 THEN [notes_data |-> Get(result, "notes_data")]
                 ELSE <<>>)
        ELSE <<>>)
    @@ (IF Truthy(account_id) THEN [account_id |-> account_id] ELSE <<>>)
    @@ (IF Truthy(facility_id) THEN [facility_id |-> facility_id] ELSE <<>>)
    @@ (IF Truthy(user_id) THEN [user_id |-> user_id] ELSE <<>>)

\* the JSON bodies of the requests
ChatBodies ==
    {[message |-> m, user_id |-> <<"u1">>, account_id |-> <<"A1">>,
      facility_id |-> None, conversation_id |-> <<"c1">>] :
        m \in {<<"hello">>, <<"Save this note:", " ", "n1">>}}
    \cup
    {[message |-> <<"Save this note:", " ", "n1">>, user_id |-> <<"u1">>,
      account_id |-> <<"A1">>, facility_id |-> None,
      conversation_id |-> None],
     [message |-> <<"hello">>, user_id |-> <<"u1">>, account_id |-> None,
      facility_id |-> <<"F1">>, conversation_id |-> <<" ">>],
     [message |-> <<"hello">>, user_id |-> <<"u1">>, account_id |-> <<"A1">>,
      facility_id |-> None, conversation_id |-> <<"c9">>],
     [message |-> <<"hello">>, user_id |-> <<" ">>, account_id |-> <<"A1">>,
      facility_id |-> None, conversation_id |-> None],
     [message |-> <<"hello">>, user_id |-> <<"u1">>, account_id |-> None,
      facility_id |-> <<" ">>, conversation_id |-> <<"c1">>],
     [message |-> None, user_id |-> <<"u1">>, account_id |-> <<"A1">>,
      facility_id |-> None, conversation_id |-> None]}

\* lines 77-118: validate the body (400), strip the fields, load the history
\* of conversation_id (404 when there is none) and build the message
ChatReceive(r) ==
    /\ req[r].pc = "idle"
    /\ \E body \in ChatBodies :
          IF ~ValidChatRequest(body)
          THEN req' = [req EXCEPT ![r].pc = "done", ![r].http = 400,
                                  ![r].body = body,
                                  ![r].response = ErrorBody("str(e)")]
          ELSE LET message == Strip(body.message)
                   account_id == StripOrEmpty(body.account_id)
                   facility_id == StripOrEmpty(body.facility_id)
                   user_id == StripOrEmpty(body.user_id)
                   conversation_id == StripOrEmpty(body.conversation_id)
                   conversation == get_conversation(conversation_id)
                   received == [req[r] EXCEPT
                                   !.body = body,
                                   !.message = message,
                                   !.account_id = account_id,
                                   !.facility_id = facility_id,
                                   !.user_id = user_id,
                                   !.conversation_id = conversation_id]
               IN
               IF Truthy(conversation_id) /\ conversation = <<>>
               THEN req' = [req EXCEPT ![r] =
                              [received EXCEPT
                                 !.pc = "done", !.http = 404,
                                 !.response = ErrorBody(
                                    "Conversation with ID {conversation_id} not found")]]
               ELSE req' = [req EXCEPT ![r] =
                              [received EXCEPT
                                 !.pc = "loaded",
                                 !.conversation_history =
                                    IF Truthy(conversation_id)
                                    THEN conversation[1].conversation_history
                                    ELSE <<>>,
                                 !.contextual_message =
                                    ContextualMessage(account_id, facility_id,
                                                      user_id, message)]]
    /\ UNCHANGED <<accounts, facilities, notes, nextNoteId, clock, convos,
                   jsonColumn, call, written>>

\* line 121, chat_with_agent: agent.invoke runs once (invocations counts
\* the calls of agent.invoke); the model may call save_note, whose config
\* carries the ids of the request and note_content = the message
\* chat_with_agent was given; a note gets a created_at later than every
\* earlier one
AgentInvoke(r, results) ==
    /\ req[r].pc = "loaded"
    /\ \E result \in results, calls_save_note \in BOOLEAN,
          now \in {clock + 1} :
          LET failure == SaveNoteValidation(req[r].contextual_message,
                                            req[r].user_id, req[r].account_id,
                                            req[r].facility_id)
              row == NoteRow(req[r].contextual_message, req[r].user_id,
                             req[r].account_id, req[r].facility_id, now)
          IN
          /\ IF calls_save_note /\ failure = Passed
             THEN /\ Len(notes) < MaxNotes
                  /\ notes' = Append(notes, row)
                  /\ nextNoteId' = nextNoteId + 1
                  /\ clock' = now
             ELSE UNCHANGED <<notes, nextNoteId, clock>>
          /\ req' = [req EXCEPT ![r].pc = "answered",
                                ![r].invocations = @ + 1,
                                ![r].result = result,
                                ![r].saved_note =
                                    calls_save_note /\ failure = Passed]
    /\ UNCHANGED <<accounts, facilities, convos, jsonColumn, call, written>>

ChatAgent(r) == AgentInvoke(r, AgentResults)

\* lines 132-177: update the conversation, or create one, and respond
ChatPersist(r) ==
    /\ req[r].pc = "answered"
    /\ IF Truthy(req[r].conversation_id)
       THEN /\ convos' = UpdatedConvos(req[r].conversation_id,
                                       UpdatedConversationHistory(r))
            /\ written' = IF req[r].conversation_id \in DOMAIN convos
                          THEN Written("update", req[r].conversation_id,
                                       UpdatedConversationHistory(r))
                          ELSE written
            /\ req' = [req EXCEPT
                         ![r].pc = "done", ![r].http = 200,
                         ![r].response =
                            ResponseData(req[r].result, req[r].conversation_id,
                                         req[r].account_id, req[r].facility_id,
                                         req[r].user_id)]
       ELSE /\ Cardinality(DOMAIN convos) < MaxConvos
            /\ \E conversation_id \in Uuid4 :
                  /\ convos' = InsertedConvos(
                                  conversation_id,
                                  UpdatedConversationHistory(r),
                                  IF Truthy(req[r].account_id)
                                  THEN req[r].account_id ELSE None,
                                  IF Truthy(req[r].facility_id)
                                  THEN req[r].facility_id ELSE None)
                  /\ written' = Written("create", conversation_id,
                                        UpdatedConversationHistory(r))
                  /\ req' = [req EXCEPT
                               ![r].pc = "done", ![r].http = 200,
                               ![r].conversation_id = conversation_id,
                               ![r].response =
                                  ResponseData(req[r].result, conversation_id,
                                               req[r].account_id,
                                               req[r].facility_id,
                                               req[r].user_id)]
    /\ UNCHANGED <<accounts, facilities, notes, nextNoteId, clock,
                   jsonColumn, call>>

\* the history an earlier turn on conversation c1 left
BaseHistory ==
    <<Msg(<<"user">>,
          ContextualMessage(<<"A1">>, <<>>, <<"u1">>, <<"m0">>)),
      Msg(<<"assistant">>, <<"r0">>)>>

\* the store the requests run against: conversation c1 exists and its
\* history is a text column
InitChat ==
    /\ accounts \in AccountTables
    /\ facilities \in FacilityTables
    /\ \A a \in AccountIds : accounts[a] = AccountRow("full", IF a = <<"A1">> THEN 1 ELSE 2)
    /\ facilities[<<"F1">>].account_id = <<"A1">>
    /\ facilities[<<"F2">>].account_id = <<"A1">>
    /\ facilities[<<"F3">>].account_id = <<"A2">>
    /\ notes = <<>>
    /\ nextNoteId = 1
    /\ clock = 1
    /\ jsonColumn = FALSE
    /\ convos = (<<"c1">> :>
                   [conversation_history |-> SqlText(json_dumps(BaseHistory)),
                    account_id |-> <<"A1">>, facility_id |-> None])
    /\ written = (<<"c1">> :>
                   [op |-> "create", conversation_history |-> BaseHistory])
    /\ call = NoCall
    /\ req = [r \in Requests |-> IdleRequest]

NextChat ==
    \E r \in Requests : ChatReceive(r) \/ ChatAgent(r) \/ ChatPersist(r)

SpecChat == InitChat /\ [][NextChat]_vars

\* one request on its own, the model returning any structured response:
\* response_type is a free str and each payload is optional
ResponseTypes ==
    {"conversational", "account_overview", "facility_overview",
     "notes_overview", "other"}

StructuredResponses ==
    {StructuredResponse(<<"reply">>, response_type, account_details,
                        facility_details, notes_data, message) :
        response_type \in ResponseTypes,
        account_details \in {None, Payload("account")},
        facility_details \in {None, Payload("facility")},
        notes_data \in {None, Payload("notes")},
        message \in {None, <<"bullets">>}}

TurnReceive == ChatReceive(1)

\* a turn that stores the user message before the model is called
TurnAgentWritingFirst ==
    /\ req[1].pc = "loaded"
    /\ req' = [req EXCEPT ![1].pc = "answered",
                          ![1].invocations = @ + 1,
                          ![1].result = ErrorResult(<<"u1">>)]
    /\ convos' = UpdatedConvos(
                    req[1].conversation_id,
                    Append(req[1].conversation_history,
                           Msg(<<"user">>, req[1].contextual_message)))
    /\ UNCHANGED <<accounts, facilities, notes, nextNoteId, clock,
                   jsonColumn, call, written>>

TurnAgent == AgentInvoke(1, StructuredResponses \cup {ErrorResult(<<"u1">>)})

TurnPersist == ChatPersist(1)

NextTurn == TurnReceive \/ TurnAgent \/ TurnPersist

SpecTurn == InitChat /\ [][NextTurn]_vars

\* a handler that undoes the note of the turn when the turn fails
NotesAfterFailedPersistUndoing(r) ==
    IF req[r].saved_note THEN SubSeq(notes, 1, Len(notes) - 1) ELSE notes

\* the notes after the except branch of chat(), lines 179-184: it logs and
\* answers, and the insert of save_note was committed on its own connection
NotesAfterFailedPersist(r) == notes

\* lines 132-143 when update_conversation or create_conversation raises
\* (connect, execute or commit failed, so no row was written): the
\* exception reaches `except Exception` of chat(), which answers 500
PersistFails(r) ==
    /\ req[r].pc = "answered"
    /\ req' = [req EXCEPT
                 ![r].pc = "done", ![r].http = 500,
                 ![r].response = ErrorBody("Internal server error: {str(e)}")]
    /\ notes' = NotesAfterFailedPersist(r)
    /\ UNCHANGED <<accounts, facilities, nextNoteId, clock, convos,
                   jsonColumn, call, written>>

TurnPersistFails == PersistFails(1)

NextTurnFault == TurnReceive \/ TurnAgent \/ TurnPersist \/ TurnPersistFails

\* one request against a database whose conversation writes may fail
SpecTurnFault == InitChat /\ [][NextTurnFault]_vars

---------------------------------------------------------------------------
(* Properties of POST /chat, checked under SpecChat                         *)

IsPrefix(a, b) == Len(a) <= Len(b) /\ SubSeq(b, 1, Len(a)) = a

\* C2: the stored history of a conversation is append-only: whatever
\* requests are handled, in any order or overlap, every value it takes has
\* the value stored before as a prefix.
C2_AppendOnly ==
    [][\A c \in DOMAIN convos :
          /\ c \in DOMAIN convos'
          /\ IsPrefix(LoadedHistory(convos[c].conversation_history),
                      LoadedHistory(convos'[c].conversation_history))]_vars

\* the persist step of request r on an existing conversation
UpdateStep(r) ==
    /\ req[r].pc = "answered"
    /\ req'[r].pc = "done"
    /\ Truthy(req[r].conversation_id)

\* C3: no lock orders overlapping requests on a conversation; each update
\* replaces the stored history by the history that request loaded plus its
\* own user/assistant pair, so the history ends as the value of the update
\* that ran last, with nothing of the other request merged in.
C3_LastWriterWins ==
    [][\A r \in Requests :
          UpdateStep(r) =>
             /\ LoadedHistory(
                   convos'[req[r].conversation_id].conversation_history)
                   = req[r].conversation_history
                        \o <<Msg(<<"user">>, req[r].contextual_message),
                             Msg(<<"assistant">>, req[r].result.final_response)>>
             /\ \A c \in DOMAIN convos :
                   c # req[r].conversation_id => convos'[c] = convos[c]]_vars

\* two requests loaded the same history of c1 and both persisted; the store
\* holds the pair of one of them only
C3_Witness ==
    /\ NumRequests >= 2
    /\ req[1].pc = "done" /\ req[1].http = 200
    /\ req[2].pc = "done" /\ req[2].http = 200
    /\ req[1].conversation_id = <<"c1">>
    /\ req[2].conversation_id = <<"c1">>
    /\ req[1].conversation_history = BaseHistory
    /\ req[2].conversation_history = BaseHistory
    /\ req[1].contextual_message # req[2].contextual_message
    /\ LoadedHistory(convos[<<"c1">>].conversation_history)
          = UpdatedConversationHistory(2)
    /\ \A i \in 1..Len(LoadedHistory(convos[<<"c1">>].conversation_history)) :
          LoadedHistory(convos[<<"c1">>].conversation_history)[i].content
             # req[1].contextual_message

\* the text after the 'Save this note:' prefix of a message
IsSaveThisNote(message) ==
    Len(message) > 1 /\ message[1] = "Save this note:"

NoteText(message) == Strip(SubSeq(message, 2, Len(message)))

\* C16: for a POST /chat request whose message is 'Save this note: <text>'
\* with user_id u and account_id a, during which the agent calls save_note,
\* the note stored has note_content <text>; with no earlier note for (u, a),
\* a following get_notes for u and a returns exactly one note, of content
\* <text>.
C16_NoteContentIsText ==
    \A r \in Requests :
       (/\ req[r].pc \in {"answered", "done"}
        /\ req[r].saved_note
        /\ IsSaveThisNote(req[r].message)
        /\ Len(notes) = 1) =>
          /\ notes[1].note_content = NoteText(req[r].message)
          /\ \A answer \in get_notes(req[r].user_id, req[r].account_id,
                                     None, NoInt) :
                /\ answer.success = TRUE
                /\ Len(answer.notes) = 1
                /\ answer.notes[1].note_content = NoteText(req[r].message)

\* C17: for every result the agent can return, a successful POST /chat
\* response carries account_details only when response_type is
\* account_overview, facility_details only when it is facility_overview,
\* notes_data only when it is notes_overview, and none of the three when it
\* is conversational.
C17_PayloadMatchesKind ==
    \A r \in Requests :
       (req[r].pc = "done" /\ req[r].http = 200) =>
          LET response_data == req[r].response
              response_type == req[r].result.response_type IN
          /\ "account_details" \in DOMAIN response_data
                => response_type = "account_overview"
          /\ "facility_details" \in DOMAIN response_data
                => response_type = "facility_overview"
          /\ "notes_data" \in DOMAIN response_data
                => response_type = "notes_overview"
          /\ response_type = "conversational"
                => DOMAIN response_data
                      \cap {"account_details", "facility_details",
                            "notes_data"} = {}

\* the steps of request r
Loads(r) == req[r].pc = "idle" /\ req'[r].pc = "loaded"

Invokes(r) == req[r].pc = "loaded" /\ req'[r].pc = "answered"

Persists(r) == req[r].pc = "answered" /\ req'[r].pc = "done"

\* the conversations whose row is new or changed in this step
ConversationsWritten ==
    {c \in DOMAIN convos' : c \notin DOMAIN convos \/ convos'[c] # convos[c]}

\* C25: within one POST /chat request the steps occur in a fixed order: the
\* history is loaded before the agent is invoked, the agent is invoked
\* exactly once, the history is persisted (one update or one create) only
\* after the agent has returned, and the response is sent only after that
\* persist; no conversation is written before the agent returns.
C25_StepsInOrder ==
    [][\A r \in Requests :
          /\ req'[r].pc # req[r].pc => (Loads(r) \/ Invokes(r) \/ Persists(r)
                                         \/ (req[r].pc = "idle"
                                               /\ req'[r].http \in {400, 404}))
          /\ req'[r].invocations # req[r].invocations =>
                /\ Invokes(r)
                /\ req[r].invocations = 0
                /\ req'[r].invocations = 1
          /\ Invokes(r) =>
                /\ req'[r].invocations = 1
                /\ req'[r].conversation_history = req[r].conversation_history
                /\ UNCHANGED convos
          /\ Loads(r) => UNCHANGED convos
          /\ (req'[r].pc # req[r].pc /\ ~Persists(r)) =>
                ConversationsWritten = {}
          /\ Persists(r) =>
                /\ req[r].invocations = 1
                /\ Cardinality(ConversationsWritten) <= 1
                /\ DOMAIN convos \subseteq DOMAIN convos'
                /\ req'[r].http = 200
                /\ req'[r].response.conversation_id \in DOMAIN convos'
          /\ (req'[r].http = 200 /\ req[r].http # 200) => Persists(r)]_vars

\* a turn on conversation c1 went through its three steps and the history
\* of c1 is the loaded one plus the pair of the turn
C25_Witness ==
    /\ req[1].pc = "done"
    /\ req[1].http = 200
    /\ req[1].invocations = 1
    /\ req[1].conversation_id = <<"c1">>
    /\ req[1].conversation_history = BaseHistory
    /\ LoadedHistory(convos[<<"c1">>].conversation_history)
          = UpdatedConversationHistory(1)

PayloadKeys == {"account_details", "facility_details", "notes_data"}

\* the model call of request r failed: chat_with_agent took its except branch
ModelCallFailed(r) ==
    req[r].pc \in {"answered", "done"} /\ req[r].result.error

\* C26: when the external model call fails during a turn, chat_with_agent
\* has invoked the agent exactly once, raises nothing and returns a result
\* of response_type 'conversational' with an apology in final_response and
\* no account_details, facility_details or notes_data; the caller gets the
\* apology as the reply of the turn, and the other request is served as
\* usual.
C26_ModelFailureSurfaced ==
    \A r \in Requests :
       ModelCallFailed(r) =>
          /\ req[r].invocations = 1
          /\ req[r].result.response_type = "conversational"
          /\ req[r].result.final_response
                = <<"Sorry, I encountered an error: ">>
          /\ \A k \in PayloadKeys : Get(req[r].result, k) = None
          /\ req[r].pc = "done" =>
                /\ req[r].http = 200
                /\ req[r].response.final_response
                      = <<"Sorry, I encountered an error: ">>
                /\ DOMAIN req[r].response \cap PayloadKeys = {}
          /\ \A q \in Requests \ {r} :
                (req[q].pc = "done" /\ ~req[q].result.error
                    /\ req[q].result # NoResult) =>
                   /\ req[q].http = 200
                   /\ req[q].response.final_response
                         = req[q].result.final_response

\* the model call of request 1 failed and request 1 was answered with the
\* apology; request 2, received after that, was served with a reply
C26_Witness ==
    /\ NumRequests >= 2
    /\ ModelCallFailed(1)
    /\ req[1].pc = "done"
    /\ req[1].http = 200
    /\ req[1].response.final_response = <<"Sorry, I encountered an error: ">>
    /\ req[2].pc = "done"
    /\ req[2].http = 200
    /\ req[2].result.error = FALSE
    /\ req[2].response.final_response = <<"reply">>
    /\ Len(req[2].conversation_history) = 4

\* every second message is of the user, every other one of the assistant
Alternates(history) ==
    /\ Len(history) % 2 = 0
    /\ \A i \in 1..Len(history) :
          history[i].role = IF i % 2 = 1 THEN <<"user">> ELSE <<"assistant">>

\* the history stored for conversation c
Stored(c) == LoadedHistory(convos[c].conversation_history)

\* C27: every conversation history persisted through POST /chat has even
\* length and alternates user, assistant, ... starting with user; each
\* request that reached its persist step stored a history exactly two
\* messages longer than the one it loaded, also when requests on one
\* conversation overlap: the stored history of a conversation is the one an
\* earlier turn left or the loaded history of a request plus its pair.
C27_HistoriesAlternate ==
    /\ \A c \in DOMAIN convos :
          /\ Alternates(Stored(c))
          /\ \/ \E r \in Requests :
                   /\ req[r].pc = "done"
                   /\ req[r].http = 200
                   /\ req[r].conversation_id = c
                   /\ Stored(c) = UpdatedConversationHistory(r)
                   /\ Len(Stored(c)) = Len(req[r].conversation_history) + 2
             \/ /\ Stored(c) = BaseHistory
                /\ \A r \in Requests :
                      req[r].conversation_id = c =>
                         ~(req[r].pc = "done" /\ req[r].http = 200)
    /\ \A r \in Requests :
          (req[r].pc = "done" /\ req[r].http = 200) =>
             /\ req[r].conversation_id \in DOMAIN written
             /\ Alternates(req[r].conversation_history)
             /\ Alternates(UpdatedConversationHistory(r))
             /\ Len(UpdatedConversationHistory(r))
                   = Len(req[r].conversation_history) + 2

\* two requests loaded the two-message history of c1 and both persisted: c1
\* holds four messages
C27_Witness ==
    /\ NumRequests >= 2
    /\ req[1].pc = "done" /\ req[1].http = 200
    /\ req[2].pc = "done" /\ req[2].http = 200
    /\ req[1].conversation_id = <<"c1">>
    /\ req[2].conversation_id = <<"c1">>
    /\ req[1].conversation_history = BaseHistory
    /\ req[2].conversation_history = BaseHistory
    /\ Len(Stored(<<"c1">>)) = 4
    /\ Alternates(Stored(<<"c1">>))

\* C30: a chat request is not atomic across its writes: when the agent
\* saved a note during the turn and the following update_conversation or
\* create_conversation fails, the request ends with HTTP 500, the
\* conversations are as they were before the turn and the saved note is
\* still in the store.
C30_NoteSurvivesFailedPersist ==
    [][\A r \in Requests :
          (Persists(r) /\ req'[r].http = 500) =>
             /\ req'[r].response.status = "error"
             /\ UNCHANGED convos
             /\ Truthy(req[r].conversation_id) =>
                   Stored(req[r].conversation_id)
                      = req[r].conversation_history
             /\ req[r].saved_note =>
                   /\ notes' # <<>>
                   /\ notes'[Len(notes')].user_id = req[r].user_id
                   /\ notes'[Len(notes')].note_content
                         = Strip(req[r].contextual_message)
                   /\ notes' = notes]_vars

\* the turn on c1 saved a note, its update failed and it was answered 500;
\* c1 holds the history the turn loaded and the note is stored
C30_Witness ==
    /\ req[1].pc = "done"
    /\ req[1].http = 500
    /\ req[1].saved_note
    /\ req[1].conversation_id = <<"c1">>
    /\ Stored(<<"c1">>) = BaseHistory
    /\ Len(notes) = 1
    /\ notes[1].account_id = <<"A1">>

\* request r is received in this step: validated and, if valid, looked up
Received(r) == req[r].pc = "idle" /\ req'[r].pc # "idle"

\* the body lacks what POST /chat requires
Rejectable(body) ==
    \/ body.user_id = None
    \/ Blank(body.user_id)
    \/ body.message = None
    \/ Blank(body.account_id) /\ Blank(body.facility_id)

\* request r ended without the agent, a conversation or a note being touched
EndsUntouched(r, status) ==
    /\ req'[r].pc = "done"
    /\ req'[r].http = status
    /\ req'[r].response.status = "error"
    /\ req'[r].result = NoResult
    /\ req'[r].saved_note = FALSE
    /\ UNCHANGED <<convos, notes, nextNoteId>>

\* C18: a POST /chat request whose user_id is missing or blank, whose message
\* is missing, or whose account_id and facility_id are both missing or blank
\* is rejected with HTTP 400 and status 'error' before the agent is invoked;
\* no conversation is created or updated and no note is written.
C18_InvalidRejected ==
    [][\A r \in Requests :
          (Received(r) /\ Rejectable(req'[r].body)) => EndsUntouched(r, 400)]_vars

\* a request with a blank user_id got 400
C18_Witness ==
    \E r \in Requests :
       /\ req[r].pc = "done"
       /\ req[r].http = 400
       /\ req[r].body.user_id = <<" ">>
       /\ req[r].response.status = "error"
       /\ notes = <<>>

\* C19: a POST /chat request that passes validation and carries a non-blank
\* conversation_id matching no stored conversation is answered with HTTP 404,
\* without the agent being invoked, without a conversation being created
\* under that or any other id and without any stored conversation changing.
C19_UnknownConversation ==
    [][\A r \in Requests :
          (/\ Received(r)
           /\ ~Rejectable(req'[r].body)
           /\ ~Blank(req'[r].body.conversation_id)
           /\ Strip(req'[r].body.conversation_id) \notin DOMAIN convos)
             => EndsUntouched(r, 404)]_vars

\* the request for conversation c9 got 404
C19_Witness ==
    \E r \in Requests :
       /\ req[r].pc = "done"
       /\ req[r].http = 404
       /\ req[r].body.conversation_id = <<"c9">>
       /\ <<"c9">> \notin DOMAIN convos

IsSuffix(a, b) ==
    Len(a) <= Len(b) /\ SubSeq(b, Len(b) - Len(a) + 1, Len(b)) = a

\* the persist step of request r, which carried no conversation_id
CreateStep(r) ==
    /\ req[r].pc = "answered"
    /\ req'[r].pc = "done"
    /\ Blank(req[r].body.conversation_id)

---------------------------------------------------------------------------
(* The four tools called against a database whose operations may fail      *)
(* (tools.py, database.py)                                                  *)

\* what the body of a tool does: it returns a result, or an exception leaves
\* it (db.execute_query and db.execute_scalar log and re-raise)
Returned(result) == [raised |-> FALSE, result |-> result]

Raised == [raised |-> TRUE, result |-> <<>>]

\* a handler that lets the exception through
ExceptReraising(outcome, response) == outcome

\* `except Exception as e:` of every tool: the error response is returned
Except(outcome, response) ==
    IF outcome.raised THEN Returned(response) ELSE outcome

\* the error responses of the four except branches
AccountError ==
    AccountResponse(FALSE,
        Message("Error fetching account details: {str(e)}", <<>>, <<>>, {}))

FacilityError ==
    FacilityResponse(FALSE,
        Message("Error fetching facility details: {str(e)}", <<>>, <<>>, {}))

SaveNoteError ==
    NoteResponse(FALSE, Message("Error saving note: {str(e)}", <<>>, <<>>, {}),
                 NoInt)

GetNotesError ==
    NotesListResponse(FALSE,
        Message("Error retrieving notes: {str(e)}", <<>>, <<>>, {}), <<>>, 0)

\* a tool that runs a query before it looks at its ids
AccountQueriesFirst(account_id, facility_id) == TRUE

\* whether a call gets as far as its first database operation
AccountQueries(account_id, facility_id) ==
    Truthy(facility_id) \/ ~Blank(account_id)

FacilityQueries(account_id, facility_id) ==
    Truthy(facility_id) \/ Truthy(account_id)

SaveNoteQueries(note_content, user_id, account_id, facility_id) ==
    /\ ~Blank(note_content)
    /\ ~Blank(user_id)
    /\ Truthy(account_id) \/ Truthy(facility_id)

GetNotesQueries(user_id, account_id, facility_id) ==
    /\ ~Blank(user_id)
    /\ Truthy(account_id) \/ Truthy(facility_id)

\* the notes table after a call of get_notes, which purges what it returned
NotesAfterGetPurging(result) ==
    SelectSeq(notes, LAMBDA n :
        \A i \in 1..Len(result.notes) : result.notes[i].note_id # n.note_id)

\* the notes table after a call of get_notes: its statements are SELECTs
NotesAfterGet(result) == notes

\* config["configurable"] of the calls
ToolAccountArgs == {None, <<"A1">>, <<"A9">>}

ToolFacilityArgs == {None, <<"F1">>, <<"F9">>}

ToolContentArgs == {<<" ">>, <<"n1">>}

ToolUserArgs == {<<>>, <<"u1">>}

ToolFetchAccountDetails ==
    /\ call = NoCall
    /\ \E account_id \in ToolAccountArgs, facility_id \in ToolFacilityArgs,
          fault \in BOOLEAN :
          call' = [op |-> "fetch_account_details", fault |-> fault,
                   account_id |-> account_id, facility_id |-> facility_id]
                  @@ Except(IF fault /\ AccountQueries(account_id, facility_id)
                            THEN Raised
                            ELSE Returned(fetch_account_details(account_id,
                                                                facility_id)),
                            AccountError)
    /\ UNCHANGED <<accounts, facilities, notes, nextNoteId, clock, convos,
                   jsonColumn, written, req>>

ToolFetchFacilityDetails ==
    /\ call = NoCall
    /\ \E account_id \in ToolAccountArgs, facility_id \in ToolFacilityArgs,
          fault \in BOOLEAN :
          call' = [op |-> "fetch_facility_details", fault |-> fault,
                   account_id |-> account_id, facility_id |-> facility_id]
                  @@ Except(IF fault /\ FacilityQueries(account_id, facility_id)
                            THEN Raised
                            ELSE Returned(fetch_facility_details(account_id,
                                                                 facility_id)),
                            FacilityError)
    /\ UNCHANGED <<accounts, facilities, notes, nextNoteId, clock, convos,
                   jsonColumn, written, req>>

\* save_note: a failed operation leaves the notes as they were (the insert
\* is rolled back when the exception leaves `with conn`), but a failed
\* insert may have drawn a value of the note_id serial
ToolSaveNote ==
    /\ call = NoCall
    /\ \E note_content \in ToolContentArgs, user_id \in ToolUserArgs,
          account_id \in ToolAccountArgs, facility_id \in ToolFacilityArgs,
          fault \in BOOLEAN, now \in {clock, clock + 1} :
          LET failure == SaveNoteValidation(note_content, user_id,
                                            account_id, facility_id)
              row == NoteRow(note_content, user_id, account_id,
                             facility_id, now)
              args == [op |-> "save_note", fault |-> fault,
                       note_content |-> note_content, user_id |-> user_id,
                       account_id |-> account_id, facility_id |-> facility_id]
          IN
          IF fault /\ SaveNoteQueries(note_content, user_id, account_id,
                                      facility_id)
          THEN /\ call' = args @@ Except(Raised, SaveNoteError)
               /\ \E drawn \in {0, 1} :
                     /\ drawn = 1 => (failure = Passed /\ nextNoteId <= MaxNotes)
                     /\ nextNoteId' = nextNoteId + drawn
               /\ UNCHANGED <<notes, clock>>
          ELSE IF failure # Passed
          THEN /\ call' = args @@ Except(Returned(failure), SaveNoteError)
               /\ UNCHANGED <<notes, nextNoteId, clock>>
          ELSE /\ Len(notes) < MaxNotes
               /\ notes' = Append(notes, row)
               /\ nextNoteId' = nextNoteId + 1
               /\ clock' = now
               /\ call' = args @@ Except(Returned(NoteSaved(row)),
                                         SaveNoteError)
    /\ UNCHANGED <<accounts, facilities, convos, jsonColumn, written, req>>

ToolGetNotes ==
    /\ call = NoCall
    /\ \E user_id \in ToolUserArgs, account_id \in ToolAccountArgs,
          facility_id \in ToolFacilityArgs, fault \in BOOLEAN :
          \E result \in get_notes(user_id, account_id, facility_id, NoInt) :
             LET outcome ==
                     Except(IF fault /\ GetNotesQueries(user_id, account_id,
                                                        facility_id)
                            THEN Raised ELSE Returned(result),
                            GetNotesError) IN
             /\ call' = [op |-> "get_notes", fault |-> fault,
                         user_id |-> user_id, account_id |-> account_id,
                         facility_id |-> facility_id, limit |-> NoInt]
                        @@ outcome
             /\ notes' = IF outcome.raised THEN notes
                         ELSE NotesAfterGet(outcome.result)
    /\ UNCHANGED <<accounts, facilities, nextNoteId, clock, convos,
                   jsonColumn, written, req>>

\* the store of the tool calls: F1 and F2 belong to A1, F3 to A2, no note
\* yet, and one conversation
InitTools ==
    /\ accounts \in AccountTables
    /\ facilities \in FacilityTables
    /\ \A a \in AccountIds :
          accounts[a] = AccountRow("full", IF a = <<"A1">> THEN 1 ELSE 2)
    /\ facilities[<<"F1">>].account_id = <<"A1">>
    /\ facilities[<<"F2">>].account_id = <<"A1">>
    /\ facilities[<<"F3">>].account_id = <<"A2">>
    /\ notes = <<>>
    /\ nextNoteId = 1
    /\ clock = 1
    /\ jsonColumn = FALSE
    /\ convos = (<<"c1">> :>
                   [conversation_history |-> SqlText(json_dumps(BaseHistory)),
                    account_id |-> <<"A1">>, facility_id |-> None])
    /\ written = <<>>
    /\ call = NoCall
    /\ req = <<>>

NextTools ==
    \/ ToolFetchAccountDetails
    \/ ToolFetchFacilityDetails
    \/ ToolSaveNote
    \/ ToolGetNotes
    \/ Return

SpecTools == InitTools /\ [][NextTools]_vars

---------------------------------------------------------------------------
(* Properties of the tools, checked under SpecTools                         *)

ToolNames ==
    {"fetch_account_details", "fetch_facility_details", "save_note",
     "get_notes"}

\* the fields of the response model of each tool
ResponseFields(tool) ==
    CASE tool = "fetch_account_details" ->
            DOMAIN AccountResponse(FALSE, Message("", <<>>, <<>>, {}))
      [] tool = "fetch_facility_details" ->
            DOMAIN FacilityResponse(FALSE, Message("", <<>>, <<>>, {}))
      [] tool = "save_note" -> {"success", "message", "note_id"}
      [] tool = "get_notes" -> {"success", "message", "notes", "total_count"}

\* the call reached a database operation and the operation failed
DatabaseFailed ==
    /\ call.fault
    /\ CASE call.op = "fetch_account_details" ->
               AccountQueries(call.account_id, call.facility_id)
         [] call.op = "fetch_facility_details" ->
               FacilityQueries(call.account_id, call.facility_id)
         [] call.op = "save_note" ->
               SaveNoteQueries(call.note_content, call.user_id,
                               call.account_id, call.facility_id)
         [] call.op = "get_notes" ->
               GetNotesQueries(call.user_id, call.account_id,
                               call.facility_id)

\* the input is invalid or names a row the store does not have
DomainFailure ==
    CASE call.op = "fetch_account_details" ->
            \/ ~Truthy(call.facility_id) /\ Blank(call.account_id)
            \/ Truthy(call.facility_id)
                  /\ call.facility_id \notin DOMAIN facilities
            \/ ~Truthy(call.facility_id)
                  /\ call.account_id \notin DOMAIN accounts
      [] call.op = "fetch_facility_details" ->
            \/ ~Truthy(call.facility_id) /\ ~Truthy(call.account_id)
            \/ Truthy(call.facility_id)
                  /\ call.facility_id \notin DOMAIN facilities
            \/ Truthy(call.account_id)
                  /\ call.account_id \notin DOMAIN accounts
      [] call.op = "save_note" -> ~SaveNoteAccepts
      [] call.op = "get_notes" -> GetNotesBlankInput \/ GetNotesUnknownId

\* C14: each of the four tools returns a well-formed result with a success
\* flag for every input and every store state, also when a database
\* operation fails; a not-found, validation or database failure comes back
\* as success=false plus a message and is never raised to the caller.
C14_ToolsAlwaysReturn ==
    call.op \in ToolNames =>
       /\ call.raised = FALSE
       /\ DOMAIN call.result = ResponseFields(call.op)
       /\ call.result.success \in BOOLEAN
       /\ call.result.message.template # ""
       /\ (DatabaseFailed \/ DomainFailure) => call.result.success = FALSE

\* the insert of a valid save_note failed: the error came back as a result
\* and no note was stored
C14_Witness ==
    /\ call.op = "save_note"
    /\ SaveNoteAccepts
    /\ DatabaseFailed
    /\ call.raised = FALSE
    /\ call.result = SaveNoteError
    /\ notes = <<>>
    /\ nextNoteId = 2

\* the result asks for an id and carries nothing else
MissingAccountContext(r) ==
    /\ r.success = FALSE
    /\ r.message
          = Message("Please provide account_id to search for account details.",
                    <<>>, <<>>, {})
    /\ NoAccountData(r)

MissingFacilityContext(r) ==
    /\ r.success = FALSE
    /\ r.message
          = Message("Please provide facility_id or account_id to search for facility details.",
                    <<>>, <<>>, {})
    /\ NoFacilityData(r)

\* None or ''
Absent == {None, <<>>}

\* C24: with neither account_id nor facility_id present,
\* fetch_account_details and fetch_facility_details each return
\* success=false with a message asking for an id and no account or facility
\* data, and run no query: the result is the same whether or not the
\* database operations would fail.
C24_MissingContext ==
    /\ \A account_id \in Absent, facility_id \in Absent :
          /\ MissingAccountContext(
                fetch_account_details(account_id, facility_id))
          /\ MissingFacilityContext(
                fetch_facility_details(account_id, facility_id))
    /\ (call.op \in FetchTools /\ call.account_id \in Absent
           /\ call.facility_id \in Absent) =>
          /\ call.raised = FALSE
          /\ call.op = "fetch_account_details"
                => MissingAccountContext(call.result)
          /\ call.op = "fetch_facility_details"
                => MissingFacilityContext(call.result)

\* fetch_account_details without ids, the database failing, asked for an id
C24_Witness ==
    /\ call.op = "fetch_account_details"
    /\ call.account_id = None
    /\ call.facility_id = None
    /\ call.fault = TRUE
    /\ MissingAccountContext(call.result)

\* C15: fetch_account_details, fetch_facility_details and get_notes leave
\* the accounts, facilities, notes and conversations unchanged for every
\* input; save_note is the only tool that changes the store, and it changes
\* the notes only.
C15_OnlySaveNoteWrites ==
    [][/\ call'.op \in ToolNames \ {"save_note"} =>
             UNCHANGED <<accounts, facilities, notes, convos>>
       /\ call'.op = "save_note" =>
             /\ UNCHANGED <<accounts, facilities, convos>>
             /\ notes' # notes =>
                   /\ call'.result.success = TRUE
                   /\ Len(notes') = Len(notes) + 1
                   /\ SubSeq(notes', 1, Len(notes)) = notes]_vars

\* get_notes returned the two notes that save_note had stored
C15_Witness ==
    /\ call.op = "get_notes"
    /\ call.result.success = TRUE
    /\ Len(call.result.notes) = 2
    /\ Len(notes) = 2
    /\ DOMAIN convos = {<<"c1">>}

====
